---- MODULE Spec2Model ----
(***************************************************************************)
(* Evaluation harness for tool-calling agents (evals/core).                *)
(*                                                                         *)
(* Spec      the agent loop of agent.py: run_agent_loop, execute_tool and  *)
(*           the MetricsTracker it records into.                           *)
(* SpecMock  the boto3 mock handler of mocking.py: patch, unpatch, the     *)
(*           mocked client factory and the parameter-aware mock method.    *)
(* SpecLaunch      the server launch and the wrapper of mcp_client.py.     *)
(* SpecValidators  the validators of validator.py and llm_judge.py.        *)
(* SpecRun         run_all and run_task of eval_runner.py.                 *)
(* SpecMetrics     MetricsTracker.get_metrics of metrics.py.               *)
(* SpecCaptors     FinalResponseCaptor of captor.py.                       *)
(* SpecCli         main of cli.py.                                         *)
(* SpecTask        Task.resolved_mock_config of task.py.                   *)
(* SpecPaths       the paths of the file tools of agent.py.                *)
(*                                                                         *)
(* Python values are modelled as follows: a dict is a function on a set of *)
(* strings, a list is a sequence, an f-string is the sequence of its       *)
(* parts (so every text is a sequence of strings), None is the string      *)
(* "None".  Wall-clock readings (durations and timestamps) are left out of *)
(* the records.                                                            *)
(***************************************************************************)
EXTENDS Integers, Sequences, FiniteSets, TLC

(***************************************************************************)
(* Bounds of the model.                                                    *)
(***************************************************************************)
MaxTurnsBound == 2
MaxToolUses == 2

None == "None"

(***************************************************************************)
(* The agent loop: agent.py                                                *)
(***************************************************************************)
VARIABLES
  max_turns,      \* argument of run_agent_loop
  pc,             \* position in run_agent_loop
  turn,           \* local variable turn
  messages,       \* local variable messages (the conversation)
  response,       \* local variable response (stopReason and content)
  idx,            \* position of the for loop over the content blocks
  tool_results,   \* local variable tool_results
  tool_calls,     \* MetricsTracker.tool_calls
  turn_count,     \* MetricsTracker.turn_count
  files,          \* the files under project_root
  remote_calls,   \* history: the calls received by session.call_tool, each with its outcome
  warnings,       \* the warnings logged by run_agent_loop
  model_outputs,  \* history: every model response, as the model produced it
  model_calls,    \* history: the number of calls to bedrock_client.converse
  returned        \* the value returned by run_agent_loop, <<>> before it returns

agentVars == <<max_turns, pc, turn, messages, response, idx, tool_results,
               tool_calls, turn_count, files, remote_calls, warnings,
               model_outputs, model_calls, returned>>

\* the state of mocking.py
VARIABLES
  mock_config,      \* the boto3 section of the task's mock configuration
  boto3_client,     \* the module attribute boto3.client
  original_client,  \* Boto3MockHandler.original_client
  mock_responses,   \* Boto3MockHandler.mock_responses
  mock_client,      \* the client the tool host got from boto3.client(...)
  last              \* history: the last operation on the handler or the client, and its outcome

mockVars == <<mock_config, boto3_client, original_client, mock_responses, mock_client, last>>

\* the state of the process launcher (mcp_client.py) and of the subprocess
\* wrapper (mock_server_wrapper.py)
VARIABLES
  task_mock_config,  \* argument mock_config of connect_to_mcp_server (an ordered dict)
  environ,           \* os.environ of the harness process
  tmp_files,         \* the files the launcher and the wrapper see, by path
  server_params,     \* the StdioServerParameters built by connect_to_mcp_server
  launch_pc,         \* position of run_task around its connection to the subprocess
  wrapper_pc,        \* position in mock_server_wrapper.main
  wrapper_config,    \* local variable mock_config of main
  wrapper_read,      \* history: the path load_mock_config opened
  stderr,            \* the lines the wrapper printed on stderr
  patched,           \* history: the libraries whose handler.patch returned, in order
  patch_all_result,  \* history: the outcome of the last patch_all
  host               \* the tool host: whether it was started, and what it found patched

launchVars == <<task_mock_config, environ, tmp_files, server_params, launch_pc, wrapper_pc,
                wrapper_config, wrapper_read, stderr, patched, patch_all_result, host>>

\* the state of the validators (validator.py)
VARIABLES
  rubric,     \* the task's rubric, the argument of validate
  validated   \* history: the last call of a validator's validate, and its outcome

validatorVars == <<rubric, validated>>

\* the state of the runner (eval_runner.py) and of the prompt executor (executor.py)
VARIABLES
  tasks,               \* EvalRunner.tasks
  run_pc,              \* position in run_all, run_task and execute_prompt
  task_index,          \* position of the for loop of run_all
  validator_index,     \* position of the for loop of _execute_validators
  validation_results,  \* local variable validation_results of _execute_validators
  results,             \* local variable results of run_all
  run_log,             \* history: for every task started, where its pipeline raised
  open_resources,      \* the subprocess channels and the sessions that are open, by task
  steps                \* history: the steps completed for the task started last, in order

runVars == <<tasks, run_pc, task_index, validator_index, validation_results, results, run_log,
             open_resources, steps>>

\* the state of a MetricsTracker used on its own (metrics.py); its tool_calls and
\* turn_count are the variables of the agent loop
VARIABLES
  expected_tools,  \* argument expected_tools of get_metrics
  got_metrics      \* history: whether get_metrics was called, and the dict it returned last

metricsVars == <<expected_tools, got_metrics>>

\* the state of a captor used on its own (captor.py)
VARIABLES
  capture_messages,  \* argument messages of capture
  captured           \* history: whether capture was called, and the dict it returned

captorVars == <<capture_messages, captured>>

\* the state of the command line entry point (cli.py: main)
VARIABLES
  cli_tasks,        \* local variable tasks of main, after the filters
  args_no_cleanup,  \* args.no_cleanup
  cli_pc,           \* position in main
  cli_index,        \* position of the for loop main is in
  cli_results,      \* local variable results of main
  cli_log           \* history: the run_task calls and the cleanup calls of main, in order

cliVars == <<cli_tasks, args_no_cleanup, cli_pc, cli_index, cli_results, cli_log>>

\* the state of a Task whose mock configuration is resolved (task.py)
VARIABLES
  raw_mock_config,  \* Task.mock_config
  fixtures_dir,     \* Task.fixtures_dir
  resolved          \* history: whether resolved_mock_config was read, and its outcome

taskVars == <<raw_mock_config, fixtures_dir, resolved>>

\* the file system the local file tools of execute_tool work on (agent.py)
VARIABLES
  disk,        \* the files that exist, each by the components of its absolute path
  path_count,  \* the number of calls made
  path_last    \* history: the last call, its outcome and the path it resolved to

pathVars == <<disk, path_count, path_last>>

\* what the actions of one component leave alone
otherVars == <<metricsVars, captorVars, cliVars, taskVars, pathVars>>
offAgent == <<mockVars, launchVars, validatorVars, runVars, otherVars>>
offMock == <<agentVars, launchVars, validatorVars, runVars, otherVars>>
offLaunch == <<agentVars, validatorVars, runVars, otherVars>>
offValidators == <<agentVars, mockVars, launchVars, runVars, otherVars>>
offRun == <<agentVars, mockVars, launchVars, validatorVars, otherVars>>
offMetrics == <<max_turns, pc, turn, messages, response, idx, tool_results, files,
                remote_calls, warnings, model_outputs, model_calls, returned,
                mockVars, launchVars, validatorVars, runVars, captorVars, cliVars, taskVars,
                pathVars>>
offCaptors == <<agentVars, mockVars, launchVars, validatorVars, runVars, metricsVars,
                cliVars, taskVars, pathVars>>
offCli == <<agentVars, mockVars, launchVars, validatorVars, runVars, metricsVars,
            captorVars, taskVars, pathVars>>
offTask == <<agentVars, mockVars, launchVars, validatorVars, runVars, metricsVars,
             captorVars, cliVars, pathVars>>
offPaths == <<agentVars, mockVars, launchVars, validatorVars, runVars, metricsVars,
              captorVars, cliVars, taskVars>>

\* ---- values the model (the LLM) and the environment can produce ----

LocalTools == {"list_files", "read_file", "write_file"}
RemoteTools == {"get_slo"}
ToolNames == LocalTools \cup RemoteTools

Absent == "<absent>"
FileNames == {"f"}
RootDir == "."

\* the (name, input) pairs the model asks for
ToolUses ==
  { <<"list_files", [path |-> "."]>>,
    <<"list_files", [path |-> "f"]>>,
    <<"read_file", [path |-> "f"]>>,
    <<"write_file", [path |-> "f", content |-> "one\r\ntwo"]>>,
    <<"get_slo", [name |-> "slo"]>> }

TextBlock == [text |-> "thinking"]

ToolUseBlock(name, input, id) ==
  [toolUse |-> [name |-> name, input |-> input, toolUseId |-> id]]

\* identifiers are issued fresh by the model: one per request of one turn
FreshId(t, k) == "tooluse_" \o ToString(t) \o "_" \o ToString(k)

\* a response content: an optional leading text block, then tool-use requests
ContentChoices(most) ==
  [text : BOOLEAN, uses : UNION {[1..n -> ToolUses] : n \in 0..most}]

MakeContent(cc, t) ==
  (IF cc.text THEN <<TextBlock>> ELSE <<>>) \o
  [k \in 1..Len(cc.uses) |-> ToolUseBlock(cc.uses[k][1], cc.uses[k][2], FreshId(t, k))]

StopReasons == {"end_turn", "tool_use", "max_tokens"}

IsToolUse(block) == "toolUse" \in DOMAIN block

\* the tool-use requests of a content list, in the order of the blocks
ToolUsesOf(content) == SelectSeq(content, IsToolUse)

\* ---- execute_tool ----

\* '\n'.join(f.name for f in dir_path.iterdir()) for the root directory
ListDir(fs) ==
  LET present == {n \in FileNames : fs[n] # Absent}
  IN  CHOOSE s \in [1..Cardinality(present) -> present] :
        \A n \in present : \E i \in DOMAIN s : s[i] = n

Ok(text, fs) == [raised |-> FALSE, text |-> text, files |-> fs]
Raise(msg, fs) == [raised |-> TRUE, error |-> msg, files |-> fs]

\* Path.write_text(data): the text is encoded and written with no translation of
\* its line ends (os.linesep is '\n')
WriteText(data) == data

\* Path.read_text(): the file is opened with newline=None, so every '\r\n' and
\* every '\r' of the file comes back as '\n'; the table of that translation on
\* the contents of the model
ReadText(data) == IF data = "one\r\ntwo" THEN "one\ntwo" ELSE data

\* the three branches of execute_tool that work on project_root
LocalToolBody(tool_name, tool_input, fs) ==
  IF "path" \notin DOMAIN tool_input THEN Raise("'path'", fs)
  ELSE LET path == tool_input["path"] IN
    CASE tool_name = "list_files" ->
           IF path = RootDir THEN Ok(<<"join">> \o ListDir(fs), fs)
           ELSE IF path \in FileNames /\ fs[path] # Absent
                THEN Raise("[Errno 20] Not a directory", fs)
                ELSE Raise("[Errno 2] No such file or directory", fs)
      [] tool_name = "read_file" ->
           IF path = RootDir THEN Raise("[Errno 21] Is a directory", fs)
           ELSE IF path \in FileNames /\ fs[path] # Absent
                THEN Ok(<<ReadText(fs[path])>>, fs)
                ELSE Raise("[Errno 2] No such file or directory", fs)
      [] tool_name = "write_file" ->
           IF "content" \notin DOMAIN tool_input THEN Raise("'content'", fs)
           ELSE IF path = RootDir THEN Raise("[Errno 21] Is a directory", fs)
           ELSE IF path \in FileNames
                THEN Ok(<<"Successfully wrote to ", path>>,
                        [fs EXCEPT ![path] = WriteText(tool_input["content"])])
                ELSE Raise("[Errno 2] No such file or directory", fs)

\* what session.call_tool can do with a call
RemoteOutcomes ==
  { [raised |-> FALSE, content |-> "slo-report"],
    [raised |-> TRUE, error |-> "Connection closed"] }

\* the else branch of execute_tool: the call goes to the MCP session
RemoteToolBody(outcome, fs) ==
  IF outcome.raised THEN Raise(outcome.error, fs)
  ELSE Ok(<<"str", outcome.content>>, fs)

\* what execute_tool hands to session.call_tool
ForwardedCall(tool_name, tool_input) ==
  [name |-> tool_name, arguments |-> tool_input]

\* params_to_log of execute_tool
ParamsToLog(tool_input) ==
  [k \in DOMAIN tool_input \ {"toolUseId"} |-> tool_input[k]]

\* mutant of RecordToolCall: a failed call leaves no record
RecordToolCallSuccessOnly(calls, tool_name, parameters, success, error) ==
  IF success
  THEN Append(calls, [tool_name |-> tool_name, parameters |-> parameters,
                      success |-> success, error |-> error])
  ELSE calls

\* MetricsTracker.record_tool_call
RecordToolCall(calls, tool_name, parameters, success, error) ==
  Append(calls, [tool_name |-> tool_name, parameters |-> parameters,
                 success |-> success, error |-> error])

\* mutant of ExecuteTool: the except branch forgets to set success and error
ExecuteToolNoFlag(tool_name, tool_input, fs, calls, outcome) ==
  LET isLocal == tool_name \in LocalTools
      body == IF isLocal THEN LocalToolBody(tool_name, tool_input, fs)
              ELSE RemoteToolBody(outcome, fs)
      result == IF body.raised
                THEN [content |-> <<[text |-> <<"Error: ", body.error>>]>>,
                      status |-> "error"]
                ELSE [content |-> <<[text |-> body.text]>>]
  IN  [result |-> result,
       tool_calls |-> RecordToolCall(calls, tool_name, ParamsToLog(tool_input), TRUE, None),
       files |-> body.files,
       forwarded |-> IF isLocal THEN <<>>
                     ELSE <<[call |-> ForwardedCall(tool_name, tool_input),
                             outcome |-> outcome]>>]

\* execute_tool: the value it returns, the record it appends, the files
\* it leaves and the remote calls it made
ExecuteTool(tool_name, tool_input, fs, calls, outcome) ==
  LET isLocal == tool_name \in LocalTools
      body == IF isLocal THEN LocalToolBody(tool_name, tool_input, fs)
              ELSE RemoteToolBody(outcome, fs)
      result == IF body.raised
                THEN [content |-> <<[text |-> <<"Error: ", body.error>>]>>,
                      status |-> "error"]
                ELSE [content |-> <<[text |-> body.text]>>]
  IN  [result |-> result,
       tool_calls |-> RecordToolCall(calls, tool_name, ParamsToLog(tool_input),
                                     ~body.raised,
                                     IF body.raised THEN body.error ELSE None),
       files |-> body.files,
       forwarded |-> IF isLocal THEN <<>>
                     ELSE <<[call |-> ForwardedCall(tool_name, tool_input),
                             outcome |-> outcome]>>]


\* ---- run_agent_loop ----

Prompt == "prompt"

\* tool_input['toolUseId'] = tool_use_id
AddToolUseId(tool_input, tool_use_id) ==
  [k \in DOMAIN tool_input \cup {"toolUseId"} |->
     IF k = "toolUseId" THEN tool_use_id ELSE tool_input[k]]

\* the content list after the input dict of its block k was written to:
\* the dict is shared by response and by the assistant message
WithInput(content, k, tool_input) ==
  [content EXCEPT ![k] = [toolUse |-> [@.toolUse EXCEPT !.input = tool_input]]]

\* mutant of ToolResultBlock: every result of a turn gets the id of the turn's first request
ToolResultBlockFirstId(tool_use_id, result) ==
  [toolResult |-> [toolUseId |-> ToolUsesOf(response.content)[1].toolUse.toolUseId,
                   content |-> result.content]]

ToolResultBlock(tool_use_id, result) ==
  [toolResult |-> [toolUseId |-> tool_use_id, content |-> result.content]]

AgentInit ==
  /\ max_turns \in 0..MaxTurnsBound
  /\ pc = "while"
  /\ turn = 0
  /\ messages = <<[role |-> "user", content |-> <<[text |-> Prompt]>>]>>
  /\ response = [stopReason |-> None, content |-> <<>>]
  /\ idx = 0
  /\ tool_results = <<>>
  /\ tool_calls = <<>>
  /\ turn_count = 0
  /\ files \in [FileNames -> {Absent, "old"}]
  /\ remote_calls = <<>>
  /\ warnings = <<>>
  /\ model_outputs = <<>>
  /\ model_calls = 0
  /\ returned = <<>>

\* mutant of LoopGuard: the bound is tested one turn too late
LoopGuardOffByOne == turn <= max_turns

\* the test of the while loop
LoopGuard == turn < max_turns

\* the warning logged after the loop when the turn budget is used up
AfterLoopWarnings(logged, turns) ==
  IF turns >= max_turns THEN Append(logged, <<"Reached max turns">>) ELSE logged

\* mutant of RunsTools: only end_turn ends the loop, any other stop reason is
\* treated like tool_use
RunsToolsUnlessEndTurn(stop) == stop # "end_turn"

\* the if / elif / else on response['stopReason']: the branch that executes the
\* requested tools; the two others break out of the loop
RunsTools(stop) == stop = "tool_use"

\* bedrock_client.converse returns: the assistant message is appended and
\* the stop reason decides where the loop goes; on a break the code after the
\* loop runs and run_agent_loop returns
ModelResponds(stop, cc) ==
  /\ pc = "while"
  /\ LoopGuard
  /\ Len(tool_calls) + Len(cc.uses) <= MaxToolUses
  /\ LET content == MakeContent(cc, turn + 1) IN
       /\ turn' = turn + 1
       /\ model_calls' = model_calls + 1
       /\ response' = [stopReason |-> stop, content |-> content]
       /\ model_outputs' = Append(model_outputs, [stopReason |-> stop, content |-> content])
       /\ messages' = Append(messages, [role |-> "assistant", content |-> content])
       /\ IF RunsTools(stop)
          THEN /\ pc' = "for"
               /\ idx' = 1
               /\ tool_results' = <<>>
               /\ UNCHANGED <<warnings, turn_count, returned>>
          ELSE /\ pc' = "returned"
               /\ warnings' = AfterLoopWarnings(
                                 IF stop = "end_turn" THEN warnings
                                 ELSE Append(warnings, <<"Unexpected stop reason: ", stop>>),
                                 turn')
               /\ turn_count' = turn'
               /\ returned' = messages'
               /\ UNCHANGED <<idx, tool_results>>
  /\ UNCHANGED <<max_turns, tool_calls, files, remote_calls>>
  /\ UNCHANGED offAgent

\* mutant of ModelRaises: the exception of the model call is logged and the
\* loop goes on to its next turn
ModelRaisesRetried ==
  /\ pc = "while"
  /\ LoopGuard
  /\ turn' = turn + 1
  /\ model_calls' = model_calls + 1
  /\ pc' = "while"
  /\ UNCHANGED <<max_turns, messages, response, idx, tool_results, tool_calls,
                 turn_count, files, remote_calls, warnings, model_outputs, returned>>
  /\ UNCHANGED offAgent

\* bedrock_client.converse raises: the exception is logged and raised again
ModelRaises ==
  /\ pc = "while"
  /\ LoopGuard
  /\ turn' = turn + 1
  /\ model_calls' = model_calls + 1
  /\ pc' = "raised"
  /\ UNCHANGED <<max_turns, messages, response, idx, tool_results, tool_calls,
                 turn_count, files, remote_calls, warnings, model_outputs, returned>>
  /\ UNCHANGED offAgent

\* one pass of the for loop over a block that is not a tool-use request
SkipBlock ==
  /\ pc = "for"
  /\ idx <= Len(response.content)
  /\ ~IsToolUse(response.content[idx])
  /\ idx' = idx + 1
  /\ UNCHANGED <<max_turns, pc, turn, messages, response, tool_results, tool_calls,
                 turn_count, files, remote_calls, warnings, model_outputs, model_calls, returned>>
  /\ UNCHANGED offAgent

\* one pass of the for loop over a tool-use request
ExecuteBlock(outcome) ==
  /\ pc = "for"
  /\ idx <= Len(response.content)
  /\ IsToolUse(response.content[idx])
  /\ LET tool_use == response.content[idx].toolUse
         tool_name == tool_use.name
         tool_use_id == tool_use.toolUseId
         tool_input == AddToolUseId(tool_use.input, tool_use_id)
         r == ExecuteTool(tool_name, tool_input, files, tool_calls, outcome)
     IN  /\ response' = [response EXCEPT !.content = WithInput(@, idx, tool_input)]
         /\ messages' = [messages EXCEPT ![Len(messages)].content =
                                            WithInput(@, idx, tool_input)]
         /\ tool_calls' = r.tool_calls
         /\ files' = r.files
         /\ remote_calls' = remote_calls \o r.forwarded
         /\ tool_results' = Append(tool_results, ToolResultBlock(tool_use_id, r.result))
  /\ idx' = idx + 1
  /\ UNCHANGED <<max_turns, pc, turn, turn_count, warnings, model_outputs,
                 model_calls, returned>>
  /\ UNCHANGED offAgent

ExecuteLocalTool ==
  /\ pc = "for" /\ idx <= Len(response.content)
  /\ IsToolUse(response.content[idx])
  /\ response.content[idx].toolUse.name \in LocalTools
  /\ ExecuteBlock(CHOOSE o \in RemoteOutcomes : TRUE)

ExecuteRemoteTool ==
  /\ pc = "for" /\ idx <= Len(response.content)
  /\ IsToolUse(response.content[idx])
  /\ response.content[idx].toolUse.name \notin LocalTools
  /\ \E outcome \in RemoteOutcomes : ExecuteBlock(outcome)

\* mutant of AppendToolResults: one user message per tool result
AppendToolResultsOneEach ==
  /\ pc = "for"
  /\ idx > Len(response.content)
  /\ messages' = messages \o [k \in DOMAIN tool_results |->
                                [role |-> "user", content |-> <<tool_results[k]>>]]
  /\ pc' = "while"
  /\ UNCHANGED <<max_turns, turn, response, idx, tool_results, tool_calls,
                 turn_count, files, remote_calls, warnings, model_outputs, model_calls, returned>>
  /\ UNCHANGED offAgent

\* the end of the for loop: messages.append({'role': 'user', 'content': tool_results})
AppendToolResults ==
  /\ pc = "for"
  /\ idx > Len(response.content)
  /\ messages' = Append(messages, [role |-> "user", content |-> tool_results])
  /\ pc' = "while"
  /\ UNCHANGED <<max_turns, turn, response, idx, tool_results, tool_calls,
                 turn_count, files, remote_calls, warnings, model_outputs, model_calls, returned>>
  /\ UNCHANGED offAgent

\* the guard of the while loop fails: the code after the loop runs and
\* run_agent_loop returns
Return ==
  /\ pc = "while"
  /\ ~LoopGuard
  /\ warnings' = AfterLoopWarnings(warnings, turn)
  /\ turn_count' = turn
  /\ returned' = messages
  /\ pc' = "returned"
  /\ UNCHANGED <<max_turns, turn, messages, response, idx, tool_results, tool_calls,
                 files, remote_calls, model_outputs, model_calls>>
  /\ UNCHANGED offAgent

AgentNext ==
  \/ \E stop \in StopReasons, cc \in ContentChoices(MaxToolUses - Len(tool_calls)) :
       ModelResponds(stop, cc)
  \/ ModelRaises
  \/ SkipBlock
  \/ ExecuteLocalTool
  \/ ExecuteRemoteTool
  \/ AppendToolResults
  \/ Return

(***************************************************************************)
(* The boto3 mock handler: mocking.py                                      *)
(***************************************************************************)
MaxMatchers == 2

Original == "boto3.client"
MockFactory == "Boto3MockHandler._create_mock_client"

\* ---- the configurations and the calls ----

Keys == {"x", "y"}
PatternValues == {"1", None}
ArgValues == {"1", "2"}

PartialMaps(K, V) == UNION {[D -> V] : D \in SUBSET K}

Patterns == PartialMaps(Keys, PatternValues)
Kwargs == PartialMaps(Keys, ArgValues)

FixtureRefs == {"ok.json", "gone.json"}     \* the strings that end in .json or .txt
FixtureFiles == {"ok.json"}                 \* the fixture files that exist
Loaded(path) == "content of " \o path

\* the responses a matcher at position i of its list can declare
ResponsesAt(i) == IF i = 1 THEN {"R1"} \cup FixtureRefs ELSE {"R" \o ToString(i)}

MatcherLists ==
  UNION { { [i \in 1..n |-> [request |-> ps[i], response |-> rs[i]]] :
              ps \in [1..n -> Patterns],
              rs \in {f \in [1..n -> UNION {ResponsesAt(i) : i \in 1..n}] :
                        \A i \in 1..n : f[i] \in ResponsesAt(i)} } :
          n \in 0..MaxMatchers }

Services == {"cloudwatch"}
Operations == {"GetMetricData"}

\* an operation is configured with a list of matchers, or (wrongly) with inline data
OperationValues == {[list |-> ml] : ml \in MatcherLists} \cup {[inline |-> "data"]}
IsList(value) == "list" \in DOMAIN value

MockConfigs ==
  {<<>>} \cup {[s \in Services |-> [o \in Operations |-> v]] : v \in OperationValues}


\* ---- MockHandler.resolve_fixture ----

\* dict.get(key, default)
Get(d, key, default) == IF key \in DOMAIN d THEN d[key] ELSE default

\* a request/response pair whose response names a fixture file that is not there
MissingFixture(pair) ==
  /\ "request" \in DOMAIN pair /\ "response" \in DOMAIN pair
  /\ pair.response \in FixtureRefs
  /\ pair.response \notin FixtureFiles

\* resolve_fixture on one request/response pair dict
ResolvePair(pair) ==
  IF "request" \in DOMAIN pair /\ "response" \in DOMAIN pair
  THEN [request |-> pair.request,
        response |-> IF pair.response \in FixtureRefs
                     THEN Loaded(pair.response) ELSE pair.response]
  ELSE pair

\* resolve_fixture on the value of one operation: [raised, value]
ResolveFixture(value) ==
  IF IsList(value)
  THEN IF \E i \in DOMAIN value.list : MissingFixture(value.list[i])
       THEN [raised |-> TRUE, value |-> value]
       ELSE [raised |-> FALSE,
             value |-> [list |-> [i \in DOMAIN value.list |-> ResolvePair(value.list[i])]]]
  ELSE [raised |-> FALSE, value |-> value]

\* ---- mock_implementation ----

NoError == [type |-> None, operation |-> None, parameters |-> <<>>, patterns |-> <<>>]

Returns(v) == [raised |-> FALSE, value |-> v, error |-> NoError]
Raises(e) == [raised |-> TRUE, value |-> None, error |-> e]

\* `not request_params`: the pattern is an empty dict (or missing)
IsFalsy(request_params) == DOMAIN request_params = {}

\* mutant of AllParamsMatch: the call must have exactly the keys of the pattern
AllParamsMatchExactKeys(request_params, kwargs) ==
  /\ DOMAIN kwargs = DOMAIN request_params
  /\ \A key \in DOMAIN request_params : kwargs[key] = request_params[key]

\* all(kwargs.get(key) == value for key, value in request_params.items())
AllParamsMatch(request_params, kwargs) ==
  \A key \in DOMAIN request_params : Get(kwargs, key, None) = request_params[key]

RECURSIVE MockLoop(_, _, _, _)
\* the for loop of mock_implementation from matcher i on, and the raise after it
MockLoop(operation, matchers, kwargs, i) ==
  IF i > Len(matchers)
  THEN Raises([type |-> "ValueError", operation |-> operation, parameters |-> kwargs,
               patterns |-> [j \in DOMAIN matchers |-> Get(matchers[j], "request", None)]])
  ELSE LET request_params == Get(matchers[i], "request", <<>>)
           matcher_response == Get(matchers[i], "response", None)
       IN  IF IsFalsy(request_params) THEN Returns(matcher_response)
           ELSE IF AllParamsMatch(request_params, kwargs) THEN Returns(matcher_response)
           ELSE MockLoop(operation, matchers, kwargs, i + 1)

\* the closure built by _create_parameter_aware_mock(operation, matchers)
MockImplementation(operation, matchers, kwargs) == MockLoop(operation, matchers, kwargs, 1)

\* ---- Boto3MockHandler ----

NoClient == [kind |-> "none", methods |-> <<>>]
RealClient == [kind |-> "real", methods |-> <<>>]

NoCall == [operation |-> None, kwargs |-> <<>>, matchers |-> <<>>]

Did(op, outcome, call) == [op |-> op, outcome |-> outcome, call |-> call]

MockInit ==
  /\ mock_config \in MockConfigs
  /\ boto3_client = Original
  /\ original_client = None
  /\ mock_responses = <<>>
  /\ mock_client = NoClient
  /\ last = Did("init", Returns(None), NoCall)

\* the resolution loop of patch: whether resolve_fixture raises in it
PatchRaises(config) ==
  \E s \in DOMAIN config : \E o \in DOMAIN config[s] : ResolveFixture(config[s][o]).raised

\* the resolution loop of patch: resolved_config when nothing raises
ResolvedConfig(config) ==
  [s \in DOMAIN config |-> [o \in DOMAIN config[s] |-> ResolveFixture(config[s][o]).value]]

\* Boto3MockHandler.patch(mock_config)
Patch ==
  LET raised == PatchRaises(mock_config)
      resolved_config == ResolvedConfig(mock_config)
  IN  /\ original_client' = boto3_client
      /\ IF raised
         THEN /\ UNCHANGED <<mock_responses, boto3_client>>
              /\ last' = Did("patch", Raises([NoError EXCEPT !.type = "FileNotFoundError"]), NoCall)
         ELSE /\ mock_responses' = resolved_config
              /\ boto3_client' = MockFactory
              /\ last' = Did("patch", Returns(None), NoCall)
      /\ UNCHANGED <<mock_config, mock_client>>
      /\ UNCHANGED offMock

\* mutant of UnpatchEffect: the test of original_client is missing
UnpatchEffectNoTest ==
  /\ boto3_client' = original_client
  /\ original_client' = None
  /\ mock_responses' = <<>>

\* Boto3MockHandler.unpatch()
UnpatchEffect ==
  IF original_client # None
  THEN /\ boto3_client' = original_client
       /\ original_client' = None
       /\ mock_responses' = <<>>
  ELSE UNCHANGED <<boto3_client, original_client, mock_responses>>

Unpatch ==
  /\ UnpatchEffect
  /\ last' = Did("unpatch", Returns(None), NoCall)
  /\ UNCHANGED <<mock_config, mock_client>>
  /\ UNCHANGED offMock

\* the checks of _create_mock_client on the value of one operation
InvalidOperation(response_data) ==
  \/ ~IsList(response_data)
  \/ response_data.list = <<>>
  \/ "request" \notin DOMAIN response_data.list[1]

\* Boto3MockHandler._create_mock_client(service_name)
CreateMockClient(service_name) ==
  IF service_name \in DOMAIN mock_responses
  THEN LET service_mocks == mock_responses[service_name] IN
         IF \E o \in DOMAIN service_mocks : InvalidOperation(service_mocks[o])
         THEN Raises([NoError EXCEPT !.type = "ValueError"])
         ELSE [raised |-> FALSE, error |-> NoError,
               value |-> [kind |-> "mock",
                          methods |-> [o \in DOMAIN service_mocks |-> service_mocks[o].list]]]
  ELSE [raised |-> FALSE, error |-> NoError,
        value |-> [kind |-> "mock", methods |-> <<>>]]

\* the tool host calls boto3.client(service_name)
CreateClient(service_name) ==
  /\ IF boto3_client = MockFactory
     THEN LET r == CreateMockClient(service_name) IN
            /\ mock_client' = IF r.raised THEN mock_client ELSE r.value
            /\ last' = Did("client", IF r.raised THEN Raises(r.error) ELSE Returns(None), NoCall)
     ELSE /\ mock_client' = RealClient
          /\ last' = Did("client", Returns(None), NoCall)
  /\ UNCHANGED <<mock_config, boto3_client, original_client, mock_responses>>
  /\ UNCHANGED offMock

\* the tool host calls mock_client.<operation>(**kwargs)
CallOperation(operation, kwargs) ==
  /\ mock_client.kind = "mock"
  /\ LET mocked == operation \in DOMAIN mock_client.methods
         matchers == IF mocked THEN mock_client.methods[operation] ELSE <<>>
     IN  last' = Did("call",
                     IF mocked THEN MockImplementation(operation, matchers, kwargs)
                     ELSE Returns("MagicMock"),
                     [operation |-> operation, kwargs |-> kwargs, matchers |-> matchers])
  /\ UNCHANGED <<mock_config, boto3_client, original_client, mock_responses, mock_client>>
  /\ UNCHANGED offMock

MockNext ==
  \/ Patch
  \/ Unpatch
  \/ \E service_name \in Services \cup {"logs"} : CreateClient(service_name)
  \/ \E operation \in Operations \cup {"ListServices"}, kwargs \in Kwargs :
       CallOperation(operation, kwargs)

(***************************************************************************)
(* The mock registry (mocking.py), the process launcher (mcp_client.py)    *)
(* and the subprocess wrapper (mock_server_wrapper.py)                     *)
(***************************************************************************)
MaxLibraries == 2

Libraries == {"boto3", "requests", "redis"}

\* MockHandlerRegistry._handlers after _register_builtin_handlers
BuiltinHandlers == {"boto3"}

\* the section of one library in a mock configuration
Boto3Sections ==
  {[s \in Services |-> [o \in Operations |->
      [list |-> <<[request |-> <<>>, response |-> r]>>]]] : r \in {"R1", "gone.json"}}
OtherSection == [s \in {"get"} |-> [o \in {"url"} |-> [inline |-> "data"]]]

\* a mock configuration: a dict, its top-level keys in insertion order, each
\* with a section of its library
TopConfigs ==
  LET all == UNION { { [i \in 1..n |-> [library |-> ls[i], config |-> cs[i]]] :
                         ls \in {f \in [1..n -> Libraries] :
                                  \A i, j \in 1..n : f[i] = f[j] => i = j},
                         cs \in [1..n -> Boto3Sections \cup {OtherSection}] } :
                     n \in 0..MaxLibraries }
  IN  {config \in all :
         \A i \in DOMAIN config :
           config[i].config \in Boto3Sections <=> config[i].library = "boto3"}

\* ---- the files and the environment ----

MockFileVar == "MCP_EVAL_MOCK_FILE"                 \* set by the launcher
WrapperFileVar == "TEMP_SERVER_WRAPPER_MOCK_FILE"   \* read by the wrapper

TempPath == "/tmp/mcp_mocks_1.json"                 \* the path mkstemp returns
ManualPath == "/tmp/mocks.json"                     \* a mock file written by hand
\* the paths of the model: /tmp/broken.json is not JSON, /tmp/missing.json does not exist
Paths == {TempPath, ManualPath, "/tmp/broken.json", "/tmp/missing.json"}

NoFile == [kind |-> "absent", items |-> <<>>]
NotJson == [kind |-> "text", items |-> <<>>]
\* json.dump(config, f): the text of a JSON object, its members in the dict's order
JsonDump(config) == [kind |-> "json", items |-> config]
\* json.load(f): [raised, value]
JsonLoad(content) ==
  IF content.kind = "json" THEN [raised |-> FALSE, value |-> content.items]
  ELSE [raised |-> TRUE, value |-> <<>>]

\* env[name] = value on a copy of env
SetEnv(env, name, value) ==
  [n \in DOMAIN env \cup {name} |-> IF n = name THEN value ELSE env[n]]

Environs == {<<>>} \cup {[n \in {WrapperFileVar} |-> p] : p \in Paths \ {TempPath}}

WrapperModule == "evals.core.mock_server_wrapper"
ServerModule == "awslabs.cloudwatch_appsignals_mcp_server.server"
NoParams == [module |-> None, env |-> <<>>]

\* ---- MockHandlerRegistry.patch_all ----

\* the handler state patch_all works on, and the outcome of the call
HandlerState ==
  [raised |-> FALSE, error |-> None, at |-> 0,
   client |-> boto3_client, original |-> original_client, responses |-> mock_responses,
   patched |-> patched]

\* handler.patch(library_config, fixtures_dir) for the handler of library_name
HandlerPatch(library_name, library_config, i, h) ==
  IF PatchRaises(library_config)
  THEN [h EXCEPT !.original = h.client,
                 !.raised = TRUE, !.error = "FileNotFoundError", !.at = i]
  ELSE [h EXCEPT !.original = h.client,
                 !.responses = ResolvedConfig(library_config),
                 !.client = MockFactory,
                 !.patched = Append(h.patched, library_name)]

RECURSIVE PatchAllFrom(_, _, _)
\* the for loop of patch_all from the i-th top-level key on
PatchAllFrom(config, i, h) ==
  IF i > Len(config) THEN h
  ELSE LET library_name == config[i].library
           library_config == config[i].config
       IN  IF library_name \in BuiltinHandlers
           THEN LET p == HandlerPatch(library_name, library_config, i, h) IN
                  IF p.raised THEN p ELSE PatchAllFrom(config, i + 1, p)
           ELSE [h EXCEPT !.raised = TRUE, !.error = "ValueError", !.at = i]

\* mutant of PatchAll: an error undoes the patches of the earlier keys
PatchAllRollback(config, h) ==
  LET r == PatchAllFrom(config, 1, h) IN
    IF r.raised THEN [h EXCEPT !.raised = TRUE, !.error = r.error, !.at = r.at] ELSE r

\* MockHandlerRegistry.patch_all(mock_config, fixtures_dir)
PatchAll(config, h) == PatchAllFrom(config, 1, h)

NoHost == [started |-> FALSE, client |-> None, applied |-> <<>>]
NoPatchAll == [called |-> FALSE, raised |-> FALSE, error |-> None, at |-> 0, config |-> <<>>]

\* the launcher and the wrapper before run_task connects
LaunchIdle ==
  /\ task_mock_config = <<>>
  /\ environ = <<>>
  /\ tmp_files = [p \in Paths |-> IF p = "/tmp/broken.json" THEN NotJson ELSE NoFile]
  /\ server_params = NoParams
  /\ launch_pc = "start"
  /\ wrapper_pc = "none"
  /\ wrapper_config = <<>>
  /\ wrapper_read = None
  /\ stderr = <<>>
  /\ patched = <<>>
  /\ patch_all_result = NoPatchAll
  /\ host = NoHost

LaunchInit ==
  /\ task_mock_config \in TopConfigs
  /\ environ \in Environs
  /\ \E manual \in TopConfigs :
       /\ (WrapperFileVar \in DOMAIN environ /\ environ[WrapperFileVar] = ManualPath)
            \/ manual = <<>>
       /\ tmp_files = [p \in Paths |-> IF p = ManualPath THEN JsonDump(manual)
                                       ELSE IF p = "/tmp/broken.json" THEN NotJson ELSE NoFile]
  /\ server_params = NoParams
  /\ launch_pc = "start"
  /\ wrapper_pc = "none"
  /\ wrapper_config = <<>>
  /\ wrapper_read = None
  /\ stderr = <<>>
  /\ patched = <<>>
  /\ patch_all_result = NoPatchAll
  /\ host = NoHost

\* connect_to_mcp_server(server_path, verbose, mock_config), called by run_task;
\* exists: whether the server file is there
ConnectToMcpServer(exists) ==
  /\ launch_pc = "start"
  /\ IF ~exists
     THEN /\ launch_pc' = "raised"
          /\ UNCHANGED <<tmp_files, server_params>>
     ELSE LET env == environ IN
            /\ IF Len(task_mock_config) > 0
               THEN /\ tmp_files' = [tmp_files EXCEPT ![TempPath] = JsonDump(task_mock_config)]
                    /\ server_params' = [module |-> WrapperModule,
                                         env |-> SetEnv(env, MockFileVar, TempPath)]
               ELSE /\ server_params' = [module |-> ServerModule, env |-> env]
                    /\ UNCHANGED tmp_files
            /\ launch_pc' = "connected"
  /\ UNCHANGED <<task_mock_config, environ, wrapper_pc, wrapper_config, wrapper_read,
                 stderr, patched, patch_all_result, host>>
  /\ UNCHANGED <<offLaunch, mockVars>>

\* run_task enters `async with connect_to_mcp_server(...)`: stdio_client starts the
\* subprocess; spawned: whether the start succeeds
StartSubprocess(spawned) ==
  /\ launch_pc = "connected"
  /\ IF ~spawned
     THEN /\ launch_pc' = "raised"
          /\ UNCHANGED <<wrapper_pc, host>>
     ELSE /\ launch_pc' = "running"
          /\ IF server_params.module = WrapperModule
             THEN /\ wrapper_pc' = "main"
                  /\ UNCHANGED host
             ELSE /\ host' = [started |-> TRUE, client |-> boto3_client, applied |-> patched]
                  /\ UNCHANGED wrapper_pc
  /\ UNCHANGED <<task_mock_config, environ, tmp_files, server_params, wrapper_config,
                 wrapper_read, stderr, patched, patch_all_result>>
  /\ UNCHANGED <<offLaunch, mockVars>>

\* mock_server_wrapper.load_mock_config(), called by main
LoadMockConfig ==
  /\ launch_pc = "running" /\ wrapper_pc = "main"
  /\ LET mock_file == Get(server_params.env, WrapperFileVar, None) IN
       IF mock_file = None
       THEN /\ wrapper_config' = <<>>
            /\ UNCHANGED <<wrapper_read, stderr>>
       ELSE IF tmp_files[mock_file].kind = "absent"
       THEN /\ wrapper_config' = <<>>
            /\ stderr' = Append(stderr, "Warning: Mock file not found")
            /\ UNCHANGED wrapper_read
       ELSE LET loaded == JsonLoad(tmp_files[mock_file]) IN
              /\ wrapper_read' = mock_file
              /\ IF loaded.raised
                 THEN /\ wrapper_config' = <<>>
                      /\ stderr' = Append(stderr, "Warning: Failed to load mock config")
                 ELSE /\ wrapper_config' = loaded.value
                      /\ UNCHANGED stderr
  /\ wrapper_pc' = "loaded"
  /\ UNCHANGED <<task_mock_config, environ, tmp_files, server_params, launch_pc,
                 patched, patch_all_result, host>>
  /\ UNCHANGED <<offLaunch, mockVars>>

\* main: `if mock_config: apply_mocks(mock_config)`, with the patch_all it calls
ApplyMocks ==
  /\ launch_pc = "running" /\ wrapper_pc = "loaded"
  /\ IF Len(wrapper_config) = 0
     THEN UNCHANGED <<stderr, patched, patch_all_result, boto3_client, original_client,
                      mock_responses, last>>
     ELSE LET r == PatchAll(wrapper_config, HandlerState) IN
            /\ boto3_client' = r.client
            /\ original_client' = r.original
            /\ mock_responses' = r.responses
            /\ patched' = r.patched
            /\ patch_all_result' = [called |-> TRUE, raised |-> r.raised, error |-> r.error,
                                    at |-> r.at, config |-> wrapper_config]
            /\ last' = Did("patch_all",
                           IF r.raised THEN Raises([NoError EXCEPT !.type = r.error])
                           ELSE Returns(None), NoCall)
            /\ stderr' = Append(stderr, IF r.raised THEN "Warning: Failed to apply mocks"
                                        ELSE "Applied mocks")
  /\ wrapper_pc' = "applied"
  /\ UNCHANGED <<task_mock_config, environ, tmp_files, server_params, launch_pc,
                 wrapper_config, wrapper_read, host>>
  /\ UNCHANGED <<mock_config, mock_client>>
  /\ UNCHANGED offLaunch

\* main: run_server(args.server_path, args.server_cwd) imports the tool host and runs it
RunServer ==
  /\ launch_pc = "running" /\ wrapper_pc = "applied"
  /\ wrapper_pc' = "serving"
  /\ host' = [started |-> TRUE, client |-> boto3_client, applied |-> patched]
  /\ UNCHANGED <<task_mock_config, environ, tmp_files, server_params, launch_pc,
                 wrapper_config, wrapper_read, stderr, patched, patch_all_result>>
  /\ UNCHANGED <<offLaunch, mockVars>>

\* run_task leaves `async with connect_to_mcp_server(...)`: the subprocess is
\* terminated and run_task returns its result (ok) or raises
CloseSubprocess(ok) ==
  /\ launch_pc = "running"
  /\ ok => host.started
  /\ launch_pc' = IF ok THEN "returned" ELSE "raised"
  /\ wrapper_pc' = IF wrapper_pc = "none" THEN "none" ELSE "exited"
  /\ UNCHANGED <<task_mock_config, environ, tmp_files, server_params, wrapper_config,
                 wrapper_read, stderr, patched, patch_all_result, host>>
  /\ UNCHANGED <<offLaunch, mockVars>>

LaunchNext ==
  \/ \E exists \in BOOLEAN : ConnectToMcpServer(exists)
  \/ \E spawned \in BOOLEAN : StartSubprocess(spawned)
  \/ LoadMockConfig
  \/ ApplyMocks
  \/ RunServer
  \/ \E ok \in BOOLEAN : CloseSubprocess(ok)

(***************************************************************************)
(* The validators: validator.py                                            *)
(***************************************************************************)
MaxLines == 3
MaxRubric == 3

\* ---- the judge's answer: a text is a sequence of lines, a line a sequence of tokens ----

Space == " "

\* str.upper() on one token
Upper(token) ==
  CASE token = "[pass]" -> "[PASS]"
    [] token = "[fail]" -> "[FAIL]"
    [] token = "ok" -> "OK"
    [] token = "bad" -> "BAD"
    [] token = "not" -> "NOT"
    [] token = "note" -> "NOTE"
    [] OTHER -> token

\* line.upper()
UpperLine(line) == [i \in DOMAIN line |-> Upper(line[i])]

\* marker in line
Contains(line, marker) == \E i \in DOMAIN line : line[i] = marker

\* not line.strip()
IsBlank(line) == \A i \in DOMAIN line : line[i] = Space

\* line.lstrip() and line.rstrip()
LStrip(line) ==
  LET inked == {i \in DOMAIN line : line[i] # Space} IN
    IF inked = {} THEN <<>>
    ELSE SubSeq(line, CHOOSE i \in inked : \A j \in inked : i <= j, Len(line))

RStrip(line) ==
  LET inked == {i \in DOMAIN line : line[i] # Space} IN
    IF inked = {} THEN <<>>
    ELSE SubSeq(line, 1, CHOOSE i \in inked : \A j \in inked : j <= i)

\* line.strip()
Strip(line) == RStrip(LStrip(line))

\* line.split(marker, 1)[1]
AfterFirst(line, marker) ==
  LET at == CHOOSE i \in DOMAIN line : line[i] = marker /\ \A j \in 1..(i - 1) : line[j] # marker
  IN  SubSeq(line, at + 1, Len(line))

\* response_text.strip().split('\n')
SplitLines(text) ==
  LET inked == {i \in DOMAIN text : ~IsBlank(text[i])} IN
    IF inked = {} THEN << <<>> >>
    ELSE LET first == CHOOSE i \in inked : \A j \in inked : i <= j
             final == CHOOSE i \in inked : \A j \in inked : j <= i
         IN  [k \in 1..(final - first + 1) |->
                LET line == text[first + k - 1]
                    left == IF k = 1 THEN LStrip(line) ELSE line
                IN  IF k = final - first + 1 THEN RStrip(left) ELSE left]

JudgeLines ==
  { <<"[PASS]", Space, "ok">>,
    <<"1.", Space, "[FAIL]", Space, "bad">>,
    <<"[pass]", Space, "ok">>,
    <<"[FAIL]", Space, "not", Space, "[PASS]">>,
    <<"note">>,
    <<Space>> }

JudgeTexts == UNION {[1..n -> JudgeLines] : n \in 0..MaxLines}

Rubrics == {[i \in 1..n |-> "criterion " \o ToString(i)] : n \in 0..MaxRubric}

\* ---- LLMJudgeValidator ----

\* the acceptance test of _parse_llm_response on one line: the status, None when
\* the line is skipped
LineStatus(line) ==
  IF IsBlank(line) THEN None
  ELSE IF Contains(UpperLine(line), "[PASS]") THEN "PASS"
  ELSE IF Contains(UpperLine(line), "[FAIL]") THEN "FAIL"
  ELSE None

LineReasoning(line, status) ==
  LET marker == "[" \o status \o "]" IN
    IF Contains(line, marker) THEN Strip(AfterFirst(line, marker)) ELSE line

\* mutant of AppendCriterion: a line past the rubric is filed under the last criterion
AppendCriterionNoBound(criteria_results, rubric_, status, reasoning) ==
  IF Len(rubric_) = 0 THEN criteria_results
  ELSE Append(criteria_results,
              [criterion |-> rubric_[IF Len(criteria_results) < Len(rubric_)
                                     THEN Len(criteria_results) + 1 ELSE Len(rubric_)],
               status |-> status, reasoning |-> reasoning])

\* `if len(criteria_results) < len(rubric): criteria_results.append(...)`
AppendCriterion(criteria_results, rubric_, status, reasoning) ==
  IF Len(criteria_results) < Len(rubric_)
  THEN Append(criteria_results,
              [criterion |-> rubric_[Len(criteria_results) + 1],
               status |-> status, reasoning |-> reasoning])
  ELSE criteria_results

RECURSIVE ParseLines(_, _, _, _)
\* the for loop of _parse_llm_response from line i on
ParseLines(lines, i, rubric_, criteria_results) ==
  IF i > Len(lines) THEN criteria_results
  ELSE LET status == LineStatus(lines[i]) IN
         IF status = None THEN ParseLines(lines, i + 1, rubric_, criteria_results)
         ELSE ParseLines(lines, i + 1, rubric_,
                         AppendCriterion(criteria_results, rubric_, status,
                                         LineReasoning(lines[i], status)))

\* LLMJudgeValidator._parse_llm_response(response_text, rubric)
ParseLlmResponse(response_text, rubric_) == ParseLines(SplitLines(response_text), 1, rubric_, <<>>)

\* what bedrock_client.converse does for the judge: it raises, it answers without
\* a text block, or it answers with a text
ConverseOutcomes ==
  {[kind |-> "raises", text |-> <<>>], [kind |-> "no_text", text |-> <<>>]}
  \cup {[kind |-> "text", text |-> t] : t \in JudgeTexts}

Returned(result) == [raised |-> FALSE, error |-> None, result |-> result]
RaisedOut(error) == [raised |-> TRUE, error |-> error, result |-> <<>>]

\* mutant of AllPass: criteria of the rubric with no result fail the validator
AllPassWholeRubric(criteria_results, rubric_) ==
  /\ Len(criteria_results) = Len(rubric_)
  /\ \A i \in DOMAIN criteria_results : criteria_results[i].status = "PASS"

\* all(r['status'] == 'PASS' for r in criteria_results)
AllPass(criteria_results, rubric_) ==
  \A i \in DOMAIN criteria_results : criteria_results[i].status = "PASS"

\* LLMJudgeValidator.validate(captured_data, rubric, bedrock_client)
JudgeValidate(rubric_, bedrock_client, outcome) ==
  IF bedrock_client = None THEN RaisedOut("ValueError")
  ELSE IF outcome.kind = "text"
  THEN LET criteria_results == ParseLlmResponse(outcome.text, rubric_) IN
         Returned([validator_name |-> "LLM Judge",
                   overall_pass |-> AllPass(criteria_results, rubric_),
                   criteria_results |-> criteria_results,
                   raw_response |-> outcome.text])
  ELSE Returned([validator_name |-> "LLM Judge",
                 overall_pass |-> FALSE,
                 error |-> <<"Validation error: ", outcome.kind>>,
                 criteria_results |-> <<>>])

\* ---- BuildValidator ----

ExitCodes == {0, 1, 137}

\* what subprocess.run does: the command exits with a code, or run raises
\* TimeoutExpired, or the shell cannot be spawned
RunOutcomes ==
  {[kind |-> "exit", code |-> c] : c \in ExitCodes}
  \cup {[kind |-> "TimeoutExpired", code |-> -1], [kind |-> "OSError", code |-> -1]}

BuildCriterion(status, reasoning) ==
  <<[criterion |-> "Build succeeds", status |-> status, reasoning |-> reasoning]>>

\* the try block of BuildValidator.validate when subprocess.run returns
BuildCompleted(returncode) ==
  LET result == [exit_code |-> returncode, success |-> returncode = 0] IN
    IF result.success
    THEN Returned([validator_name |-> "Build",
                   overall_pass |-> TRUE,
                   criteria_results |->
                     BuildCriterion("PASS", <<"Build completed with exit code 0">>),
                   build_result |-> result])
    ELSE Returned([validator_name |-> "Build",
                   overall_pass |-> FALSE,
                   criteria_results |->
                     BuildCriterion("FAIL", <<"Build failed with exit code ",
                                              ToString(returncode)>>),
                   build_result |-> result])

\* mutant of BuildValidate: an exception of subprocess.run is not caught
BuildValidateUncaught(outcome) ==
  IF outcome.kind = "exit" THEN BuildCompleted(outcome.code) ELSE RaisedOut(outcome.kind)

\* BuildValidator.validate(captured_data, rubric, bedrock_client)
BuildValidate(outcome) ==
  IF outcome.kind = "exit" THEN BuildCompleted(outcome.code)
  ELSE Returned([validator_name |-> "Build",
                 overall_pass |-> FALSE,
                 error |-> <<outcome.kind>>,
                 criteria_results |-> BuildCriterion("FAIL", <<"Build error: ", outcome.kind>>),
                 build_result |-> [exit_code |-> -1, success |-> FALSE]])

\* ---- the validators called on their own: validate keeps no state from one call
\* to the next, so a behaviour holds one call ----

NoValidation == [validator |-> None, client |-> None, outcome |-> [kind |-> None],
                 call |-> Returned(<<>>)]

ValidatorsIdle ==
  /\ rubric = <<>>
  /\ validated = NoValidation

ValidatorsInit ==
  /\ rubric \in Rubrics
  /\ validated = NoValidation

\* a call of LLMJudgeValidator.validate
CallJudgeValidate(bedrock_client, outcome) ==
  /\ validated = NoValidation
  /\ validated' = [validator |-> "LLM Judge", client |-> bedrock_client, outcome |-> outcome,
                   call |-> JudgeValidate(rubric, bedrock_client, outcome)]
  /\ UNCHANGED rubric
  /\ UNCHANGED offValidators

\* a call of BuildValidator.validate
CallBuildValidate(outcome) ==
  /\ validated = NoValidation
  /\ validated' = [validator |-> "Build", client |-> None, outcome |-> outcome,
                   call |-> BuildValidate(outcome)]
  /\ UNCHANGED rubric
  /\ UNCHANGED offValidators

ValidatorsNext ==
  \/ \E bedrock_client \in {"bedrock-runtime", None}, outcome \in ConverseOutcomes :
       CallJudgeValidate(bedrock_client, outcome)
  \/ \E outcome \in RunOutcomes : CallBuildValidate(outcome)

(***************************************************************************)
(* The runner (eval_runner.py) and the prompt executor (executor.py)       *)
(***************************************************************************)
MaxTasks == 2

\* the steps of one task before its validators, each of which can raise
Stages == {"launch", "handshake", "agent loop", "captors"}

\* the validators a task can return from get_validators, by class; "Custom" is
\* another subclass of Validator
ValidatorLists ==
  { <<>>, <<"Build">>, <<"Build", "LLM Judge">>, <<"LLM Judge", "Build">>,
    <<"Custom", "Build">>, <<"Build", "Custom">> }

\* what a validator of another class can return: a dict with or without overall_pass
CustomResults ==
  {[validator_name |-> "Custom", overall_pass |-> b] : b \in BOOLEAN}
  \cup {[validator_name |-> "Custom"]}

\* the captors a task returns from get_captors: a GitDiffCaptor for an enablement
\* task, a ToolCallsCaptor and a FinalResponseCaptor for an investigation task
GetCaptors(validators) ==
  IF validators = <<>> THEN <<>>
  ELSE IF validators[1] = "Build" THEN <<"GitDiff">>
  ELSE <<"ToolCalls", "FinalResponse">>

TaskLists ==
  UNION { { [i \in 1..n |-> [id |-> "task " \o ToString(i), validators |-> vs[i],
                             captors |-> GetCaptors(vs[i])]] :
              vs \in [1..n -> ValidatorLists] } : n \in 0..MaxTasks }

Step(kind, of) == [step |-> kind, of |-> of]

NoSteps == [task_id |-> None, done |-> <<>>]

\* mutant of CompletedSteps: the captors run before the agent loop
CompletedStepsCaptorsFirst(task, stage, n_captured) ==
  IF stage \in {"launch", "handshake"} THEN <<>>
  ELSE IF stage = "agent loop" THEN <<Step("handshake", None)>>
  ELSE <<Step("handshake", None)>>
       \o [i \in 1..n_captured |-> Step("captor", task.captors[i])]
       \o <<Step("agent loop", None)>>

\* run_task and execute_prompt as far as the validators: the steps completed when
\* the step `stage` raises (None: no step raises) after `n_captured` captors
CompletedSteps(task, stage, n_captured) ==
  IF stage \in {"launch", "handshake"} THEN <<>>
  ELSE IF stage = "agent loop" THEN <<Step("handshake", None)>>
  ELSE <<Step("handshake", None), Step("agent loop", None)>>
       \o [i \in 1..n_captured |-> Step("captor", task.captors[i])]

\* the numbers of captors that can have run when get_captors or a captor raises
CapturedBeforeRaise(task) ==
  IF task.captors = <<>> THEN {0} ELSE 0..(Len(task.captors) - 1)

\* run_all: the result appended for a task whose pipeline raised e
ErrorResult(task_id, e) == [task_id |-> task_id, error |-> e, success |-> FALSE]

\* mutant of AfterException: run_all has no except clause, the exception ends the batch
AfterExceptionPropagates(task_id, e) ==
  /\ run_pc' = "raised"
  /\ UNCHANGED <<results, task_index>>

\* run_all: the except clause of the for loop
AfterException(task_id, e) ==
  /\ results' = Append(results, ErrorResult(task_id, e))
  /\ task_index' = task_index + 1
  /\ run_pc' = "run_all"

\* mutant of OverallSuccess: a result with no overall_pass counts as a pass
OverallSuccessDefaultTrue(validation_results_) ==
  \A i \in DOMAIN validation_results_ : Get(validation_results_[i], "overall_pass", TRUE)

\* execute_prompt: all(v.get('overall_pass', False) for v in validation_results)
OverallSuccess(validation_results_) ==
  \A i \in DOMAIN validation_results_ : Get(validation_results_[i], "overall_pass", FALSE)

\* `async with connect_to_mcp_server(...)` and `async with ClientSession(...)` are
\* entered for the task
EnterAsyncWith(open, task_id) ==
  open \cup {[task |-> task_id, resource |-> r] : r \in {"subprocess", "session"}}

\* mutant of ExitAsyncWith: the channel and the session are closed by the return
\* of run_task only, an exception leaves them open
ExitAsyncWithOnReturn(open, task_id, raising) ==
  IF raising THEN open ELSE {o \in open : o.task # task_id}

\* the two `async with` blocks of run_task are left, by the return or by an
\* exception: the session and the subprocess channel of the task are closed
ExitAsyncWith(open, task_id, raising) == {o \in open : o.task # task_id}

RunIdle ==
  /\ tasks = <<>>
  /\ run_pc = "idle"
  /\ task_index = 1
  /\ validator_index = 1
  /\ validation_results = <<>>
  /\ results = <<>>
  /\ run_log = <<>>
  /\ open_resources = {}
  /\ steps = NoSteps

RunInit ==
  /\ tasks \in TaskLists
  /\ run_pc = "run_all"
  /\ task_index = 1
  /\ validator_index = 1
  /\ validation_results = <<>>
  /\ results = <<>>
  /\ run_log = <<>>
  /\ open_resources = {}
  /\ steps = NoSteps

\* run_all starts run_task on the next task; run_task and execute_prompt go as far
\* as the first validator, unless the step `stage` raises
StartTask(stage) ==
  /\ run_pc = "run_all" /\ task_index <= Len(tasks)
  /\ LET task == tasks[task_index] IN
       IF stage \in Stages
       THEN /\ AfterException(task.id, stage)
            /\ run_log' = Append(run_log, [task_id |-> task.id, raised |-> stage])
            /\ open_resources' =
                 IF stage = "launch" THEN open_resources
                 ELSE ExitAsyncWith(EnterAsyncWith(open_resources, task.id), task.id, TRUE)
            /\ \E n_captured \in (IF stage = "captors" THEN CapturedBeforeRaise(task) ELSE {0}) :
                 steps' = [task_id |-> task.id,
                           done |-> CompletedSteps(task, stage, n_captured)]
            /\ UNCHANGED <<validator_index, validation_results>>
       ELSE /\ run_pc' = "validators"
            /\ validator_index' = 1
            /\ validation_results' = <<>>
            /\ open_resources' = EnterAsyncWith(open_resources, task.id)
            /\ steps' = [task_id |-> task.id,
                         done |-> CompletedSteps(task, None, Len(task.captors))]
            /\ UNCHANGED <<results, task_index, run_log>>
  /\ UNCHANGED tasks
  /\ UNCHANGED offRun

\* the calls the next validator of the task can make: it gets no bedrock_client
ValidatorCalls ==
  IF run_pc = "validators" /\ validator_index <= Len(tasks[task_index].validators)
  THEN LET class == tasks[task_index].validators[validator_index] IN
         IF class = "Build" THEN {BuildValidate(o) : o \in RunOutcomes}
         ELSE IF class = "LLM Judge"
         THEN {JudgeValidate(rubric, None, [kind |-> "raises", text |-> <<>>])}
         ELSE {Returned(r) : r \in CustomResults}
  ELSE {}

\* _execute_validators: `await validator.validate(captured_data, task.rubric)` for the
\* next validator
RunValidator ==
  /\ run_pc = "validators"
  /\ validator_index <= Len(tasks[task_index].validators)
  /\ \E call \in ValidatorCalls :
       LET task == tasks[task_index] IN
         IF call.raised
         THEN /\ AfterException(task.id, call.error)
              /\ run_log' = Append(run_log, [task_id |-> task.id, raised |-> call.error])
              /\ open_resources' = ExitAsyncWith(open_resources, task.id, TRUE)
              /\ UNCHANGED <<validator_index, validation_results, steps>>
         ELSE /\ validation_results' = Append(validation_results, call.result)
              /\ validator_index' = validator_index + 1
              /\ steps' = [steps EXCEPT !.done =
                             Append(@, Step("validator", task.validators[validator_index]))]
              /\ UNCHANGED <<run_pc, results, task_index, run_log, open_resources>>
  /\ UNCHANGED tasks
  /\ UNCHANGED offRun

\* execute_prompt returns its result after the last validator, run_task adds the
\* task id and run_all appends the result (the metrics and the captured data of the
\* result are left out)
FinishTask ==
  /\ run_pc = "validators"
  /\ LET task == tasks[task_index] IN
       /\ validator_index > Len(task.validators)
       /\ results' = Append(results, [prompt |-> "prompt of " \o task.id,
                                      success |-> OverallSuccess(validation_results),
                                      validation_results |-> validation_results,
                                      task_id |-> task.id])
       /\ run_log' = Append(run_log, [task_id |-> task.id, raised |-> None])
       /\ open_resources' = ExitAsyncWith(open_resources, task.id, FALSE)
  /\ steps' = [steps EXCEPT !.done = Append(@, Step("result", None))]
  /\ task_index' = task_index + 1
  /\ run_pc' = "run_all"
  /\ UNCHANGED <<tasks, validator_index, validation_results>>
  /\ UNCHANGED offRun

\* run_all: `return results` after the last task
ReturnResults ==
  /\ run_pc = "run_all" /\ task_index > Len(tasks)
  /\ run_pc' = "returned"
  /\ UNCHANGED <<tasks, task_index, validator_index, validation_results, results, run_log,
                 open_resources, steps>>
  /\ UNCHANGED offRun

RunNext ==
  \/ \E stage \in Stages \cup {None} : StartTask(stage)
  \/ RunValidator
  \/ FinishTask
  \/ ReturnResults

(***************************************************************************)
(* The metrics tracker: metrics.py                                         *)
(***************************************************************************)
MaxRecords == 3

\* the tools a task can expect; list_services is never called in the model
ExpectedLists ==
  { <<>>, <<"get_slo">>, <<"get_slo", "get_slo">>, <<"get_slo", "read_file">>,
    <<"list_services">>, <<"read_file", "list_services">> }

\* a float that is the quotient of two ints; 0.0 is Ratio(0, 1)
Ratio(n, d) == [num |-> n, den |-> d]
\* == on two such floats
SameFloat(a, b) == a.num * b.den = b.num * a.den

\* the order of str on the tool names, for sorted()
ToolOrder == <<"get_slo", "list_files", "list_services", "read_file", "write_file">>
Sorted(S) == SelectSeq(ToolOrder, LAMBDA t : t \in S)

Range(seq) == {seq[i] : i \in DOMAIN seq}
Count(calls, Test(_)) == Cardinality({i \in DOMAIN calls : Test(calls[i])})

\* mutant of SuccessRate: a run with no tool call counts as a full success
SuccessRateEmptyIsOne(calls) ==
  IF calls # <<>> THEN Ratio(Count(calls, LAMBDA c : c.success), Len(calls))
  ELSE Ratio(1, 1)

\* get_metrics: the value of 'success_rate'
SuccessRate(calls) ==
  IF calls # <<>> THEN Ratio(Count(calls, LAMBDA c : c.success), Len(calls))
  ELSE Ratio(0, 1)

\* dict.update(other)
Update(d, other) ==
  [k \in DOMAIN d \cup DOMAIN other |-> IF k \in DOMAIN other THEN other[k] ELSE d[k]]

\* get_metrics: the dict built before the test of expected_tools (task_duration,
\* a difference of clock readings, is left out)
BaseMetrics(calls, turns) ==
  LET unique_tools == {calls[i].tool_name : i \in DOMAIN calls}
      file_op_calls == SelectSeq(calls, LAMBDA c : c.tool_name \in LocalTools)
  IN  [success_rate |-> SuccessRate(calls),
       tool_call_count |-> Len(calls),
       unique_tools_count |-> Cardinality(unique_tools),
       turn_count |-> turns,
       tool_breakdown |->
         [t \in unique_tools |->
            [count |-> Count(calls, LAMBDA c : c.tool_name = t),
             success |-> Count(calls, LAMBDA c : c.tool_name = t /\ c.success),
             failed |-> Count(calls, LAMBDA c : c.tool_name = t /\ ~c.success)]],
       tool_calls_detail |-> calls,
       file_operation_count |-> Len(file_op_calls),
       file_read_count |-> Count(file_op_calls, LAMBDA c : c.tool_name = "read_file"),
       file_write_count |-> Count(file_op_calls, LAMBDA c : c.tool_name = "write_file")]

\* get_metrics: the keys added under `if expected_tools:`
HitMetrics(calls, expected) ==
  LET expected_tool_set == Range(expected)
      called_tool_names == {calls[i].tool_name : i \in DOMAIN calls}
      called_expected == called_tool_names \cap expected_tool_set
      missing == expected_tool_set \ called_tool_names
      unexpected == called_tool_names \ expected_tool_set
  IN  [hit_rate |-> IF expected_tool_set # {}
                    THEN Ratio(Cardinality(called_expected), Cardinality(expected_tool_set))
                    ELSE Ratio(0, 1),
       expected_tools_called |-> Sorted(called_expected),
       missing_expected_tools |-> Sorted(missing),
       unexpected_tools_called |-> Sorted(unexpected)]

\* mutant of GetMetrics: the hit rate counts the calls of expected tools, not the tools
GetMetricsPerCall(calls, expected, turns) ==
  IF expected # <<>>
  THEN Update(BaseMetrics(calls, turns),
              [HitMetrics(calls, expected) EXCEPT
                 !.hit_rate = Ratio(Count(calls, LAMBDA c : c.tool_name \in Range(expected)),
                                    Cardinality(Range(expected)))])
  ELSE BaseMetrics(calls, turns)

\* MetricsTracker.get_metrics(expected_tools)
GetMetrics(calls, expected, turns) ==
  IF expected # <<>>
  THEN Update(BaseMetrics(calls, turns), HitMetrics(calls, expected))
  ELSE BaseMetrics(calls, turns)

NoMetrics == [called |-> FALSE, metrics |-> <<>>]

MetricsIdle ==
  /\ expected_tools = <<>>
  /\ got_metrics = NoMetrics

\* a fresh MetricsTracker and the expected_tools of a task (a list: Task.__post_init__
\* replaces None by [])
MetricsInit ==
  /\ expected_tools \in ExpectedLists
  /\ got_metrics = NoMetrics

\* record_tool_call(tool_name, parameters, duration, success, error)
CallRecordToolCall(tool_name, success) ==
  /\ Len(tool_calls) < MaxRecords
  /\ tool_calls' = RecordToolCall(tool_calls, tool_name, <<>>, success,
                                  IF success THEN None ELSE "failed")
  /\ UNCHANGED <<turn_count, metricsVars>>
  /\ UNCHANGED offMetrics

\* get_metrics(expected_tools=task.expected_tools)
CallGetMetrics ==
  /\ got_metrics' = [called |-> TRUE,
                     metrics |-> GetMetrics(tool_calls, expected_tools, turn_count)]
  /\ UNCHANGED <<tool_calls, turn_count, expected_tools>>
  /\ UNCHANGED offMetrics

MetricsNext ==
  \/ \E tool_name \in ToolNames, success \in BOOLEAN : CallRecordToolCall(tool_name, success)
  \/ CallGetMetrics

(***************************************************************************)
(* The captors: captor.py                                                  *)
(***************************************************************************)
MaxBlocks == 2      \* content blocks in one assistant message
MaxAssistant == 2   \* assistant messages in one conversation

\* the content blocks of an assistant message
CaptorBlocks ==
  { [text |-> "first"], [text |-> "second"],
    ToolUseBlock("get_slo", [name |-> "slo"], "tooluse_1") }

AssistantContents == UNION {[1..n -> CaptorBlocks] : n \in 0..MaxBlocks}

ToolResultsMessage ==
  [role |-> "user",
   content |-> <<[toolResult |-> [toolUseId |-> "tooluse_1",
                                  content |-> <<[text |-> "slo-report"]>>]]>>]

\* the conversation run_agent_loop returns for the assistant contents cs: the
\* prompt, then every assistant message, a user message of tool results between
\* two of them
Conversation(cs) ==
  IF cs = <<>> THEN <<[role |-> "user", content |-> <<[text |-> Prompt]>>]>>
  ELSE [k \in 1..(2 * Len(cs)) |->
          IF k = 1 THEN [role |-> "user", content |-> <<[text |-> Prompt]>>]
          ELSE IF k % 2 = 0 THEN [role |-> "assistant", content |-> cs[k \div 2]]
          ELSE ToolResultsMessage]

Conversations ==
  {Conversation(cs) : cs \in UNION {[1..n -> AssistantContents] : n \in 0..MaxAssistant}}

HasText(block) == "text" \in DOMAIN block

RECURSIVE CaptureFrom(_, _)
\* FinalResponseCaptor.capture: the loop over reversed(messages) from message i
\* down, and the return after it
CaptureFrom(msgs, i) ==
  IF i = 0 THEN [final_response |-> "", error |-> "No final response found"]
  ELSE LET message == msgs[i]
           texts == SelectSeq(Get(message, "content", <<>>), HasText)
       IN  IF Get(message, "role", None) = "assistant" /\ texts # <<>>
           THEN [final_response |-> texts[1].text]
           ELSE CaptureFrom(msgs, i - 1)

\* FinalResponseCaptor.capture(messages, metrics_tracker, project_root)
FinalResponseCapture(msgs) == CaptureFrom(msgs, Len(msgs))

NoCapture == [called |-> FALSE, result |-> <<>>]

CaptorsIdle ==
  /\ capture_messages = <<>>
  /\ captured = NoCapture

CaptorsInit ==
  /\ capture_messages \in Conversations
  /\ captured = NoCapture

\* _execute_captors: captor.capture(messages, metrics_tracker, working_directory)
\* for a FinalResponseCaptor
Capture ==
  /\ ~captured.called
  /\ captured' = [called |-> TRUE, result |-> FinalResponseCapture(capture_messages)]
  /\ UNCHANGED capture_messages
  /\ UNCHANGED offCaptors

CaptorsNext == Capture

(***************************************************************************)
(* The command line entry point: cli.py                                    *)
(***************************************************************************)

\* the classes of the tasks: an EnablementTask with git_paths, one without, and
\* a task that keeps the cleanup of the base class
TaskClasses == {"enablement", "enablement without git_paths", "investigation"}

\* the tasks main is left with: main exits before the loop when there is none
CliTaskLists == UNION {[1..n -> TaskClasses] : n \in 1..MaxTasks}

\* what runner.run_task can do: return the result of the task, whose validators
\* passed or not, or raise
RunTaskOutcomes == {"passed", "failed", "raised"}

\* what task.cleanup(context) does, by class: EnablementTask.cleanup resets the
\* paths with git, or logs a warning when git fails or when it has no path;
\* Task.cleanup does nothing
CleanupEffects(class) ==
  IF class = "enablement" THEN {"git reset", "warning"}
  ELSE IF class = "enablement without git_paths" THEN {"warning"}
  ELSE {"nothing"}

CliIdle ==
  /\ cli_tasks = <<>>
  /\ args_no_cleanup = FALSE
  /\ cli_pc = "idle"
  /\ cli_index = 1
  /\ cli_results = <<>>
  /\ cli_log = <<>>

\* main, when it reaches `runner = EvalRunner(...)`
CliInit ==
  /\ cli_tasks \in CliTaskLists
  /\ args_no_cleanup \in BOOLEAN
  /\ cli_pc = "run"
  /\ cli_index = 1
  /\ cli_results = <<>>
  /\ cli_log = <<>>

\* one pass of `for task in tasks:`: run_task is awaited and its result kept; an
\* exception leaves the try block for `except Exception`, which ends in sys.exit(1)
CliRunTask(outcome) ==
  /\ cli_pc = "run"
  /\ cli_index <= Len(cli_tasks)
  /\ cli_log' = Append(cli_log, [event |-> "run_task", task |-> cli_index,
                                 outcome |-> outcome])
  /\ IF outcome = "raised"
     THEN /\ cli_pc' = "exit 1"
          /\ UNCHANGED <<cli_index, cli_results>>
     ELSE /\ cli_results' = Append(cli_results, [task |-> cli_index,
                                                 success |-> outcome = "passed"])
          /\ cli_index' = IF cli_index = Len(cli_tasks) THEN 1 ELSE cli_index + 1
          /\ cli_pc' = IF cli_index = Len(cli_tasks) THEN "report" ELSE "run"
  /\ UNCHANGED <<cli_tasks, args_no_cleanup>>
  /\ UNCHANGED offCli

\* one pass of `for task, result in zip(tasks, results):`: the report, then the
\* cleanup of the task unless --no-cleanup was given
CliReportTask(effect) ==
  /\ cli_pc = "report"
  /\ cli_index <= Len(cli_tasks)
  /\ effect \in CleanupEffects(cli_tasks[cli_index])
  /\ cli_log' = IF ~args_no_cleanup
                THEN Append(cli_log, [event |-> "cleanup", task |-> cli_index,
                                      outcome |-> effect])
                ELSE cli_log
  /\ cli_index' = cli_index + 1
  /\ UNCHANGED <<cli_tasks, args_no_cleanup, cli_pc, cli_results>>
  /\ UNCHANGED offCli

\* the end of main after the last report
CliReturn ==
  /\ cli_pc = "report"
  /\ cli_index > Len(cli_tasks)
  /\ cli_pc' = "returned"
  /\ UNCHANGED <<cli_tasks, args_no_cleanup, cli_index, cli_results, cli_log>>
  /\ UNCHANGED offCli

CliNext ==
  \/ \E outcome \in RunTaskOutcomes : CliRunTask(outcome)
  \/ \E effect \in {"git reset", "warning", "nothing"} : CliReportTask(effect)
  \/ CliReturn

(***************************************************************************)
(* The mock configuration of a task: task.py                               *)
(***************************************************************************)
MaxPairs == 2

\* a Python value of the raw configuration with its type: a dict (a function on
\* its keys), a list (a sequence), a str, or None
Dict(d) == [dict |-> d]
List(l) == [list |-> l]
Str(t) == [str |-> t]
NoneValue == [none |-> None]
IsDict(value) == "dict" \in DOMAIN value
IsStr(value) == "str" \in DOMAIN value

\* the strings of the model; value.endswith('.json') or value.endswith('.txt')
\* and Path(value).is_absolute() on them
ResponseStrings == {"services.json", "notes.txt", "/abs/services.json", "inline"}
EndsWithFixtureSuffix(t) == t \in {"services.json", "notes.txt", "/abs/services.json"}
IsAbsolute(t) == t = "/abs/services.json"

\* the dict {'request': {}, 'response': response}
Pair(response_) == Dict([request |-> Dict(<<>>), response |-> response_])

ResponseValues == {Str(t) : t \in ResponseStrings} \cup {Dict(<<>>)}

\* the values an operation is configured with: a list of request/response
\* pairs, a list of file names, one pair, or one string
TaskOperationValues ==
  {List(l) : l \in UNION {[1..n -> {Pair(r) : r \in ResponseValues}] : n \in 0..MaxPairs}}
  \cup {List(<<Str(t)>>) : t \in ResponseStrings}
  \cup {Pair(r) : r \in ResponseValues}
  \cup {Str(t) : t \in ResponseStrings}

\* Task.mock_config: None, {} or {'boto3': {service: {operation: value}}}
RawMockConfigs ==
  {NoneValue, Dict(<<>>)}
  \cup {Dict([l \in {"boto3"} |-> Dict([sv \in Services |-> Dict([o \in Operations |-> v])])]) :
          v \in TaskOperationValues}

FixturesDirs == {None, "/fixtures"}

\* a relative fixture file name
IsRelativeFixture(t) == EndsWithFixtureSuffix(t) /\ ~IsAbsolute(t)

RECURSIVE HasFixtureReferences(_)
\* Task._has_fixture_references(mock_config) on the dict d
HasFixtureReferences(d) ==
  \E key \in DOMAIN d :
    LET value == d[key] IN
      IF IsDict(value) THEN HasFixtureReferences(value.dict)
      ELSE IF IsList(value)
      THEN \E i \in DOMAIN value.list :
             IsStr(value.list[i]) /\ IsRelativeFixture(value.list[i].str)
      ELSE IsStr(value) /\ IsRelativeFixture(value.str)

\* Task._resolve_request_response_pair: whether it raises ValueError on the item
PairRaises(item) ==
  ~(IsDict(item) /\ "request" \in DOMAIN item.dict /\ "response" \in DOMAIN item.dict)

\* str(fixtures_dir / response)
JoinPath(dir, t) == IF IsAbsolute(t) THEN t ELSE dir \o "/" \o t

\* Task._resolve_request_response_pair on a pair that is well formed
ResolveRequestResponsePair(pair, dir) ==
  LET response_ == pair.dict.response IN
    Dict([request |-> pair.dict.request,
          response |-> IF IsStr(response_) /\ EndsWithFixtureSuffix(response_.str)
                       THEN Str(JoinPath(dir, response_.str)) ELSE response_])

RECURSIVE ResolveRaises(_)
\* Task._resolve_fixture_paths: whether it raises on the dict d
ResolveRaises(d) ==
  \E key \in DOMAIN d :
    IF IsDict(d[key]) THEN ResolveRaises(d[key].dict)
    ELSE IsList(d[key]) /\ \E i \in DOMAIN d[key].list : PairRaises(d[key].list[i])

RECURSIVE ResolveFixturePaths(_, _)
\* Task._resolve_fixture_paths(mock_config, fixtures_dir) when nothing raises
ResolveFixturePaths(d, dir) ==
  [key \in DOMAIN d |->
     IF IsDict(d[key]) THEN Dict(ResolveFixturePaths(d[key].dict, dir))
     ELSE IF IsList(d[key])
     THEN List([i \in DOMAIN d[key].list |-> ResolveRequestResponsePair(d[key].list[i], dir)])
     ELSE d[key]]

\* the property Task.resolved_mock_config
ResolvedMockConfig(config, dir) ==
  IF "none" \in DOMAIN config \/ (IsDict(config) /\ DOMAIN config.dict = {})
  THEN [raised |-> FALSE, error |-> None, value |-> NoneValue]
  ELSE IF dir = None
  THEN IF HasFixtureReferences(config.dict)
       THEN [raised |-> TRUE, error |-> "ValueError", value |-> NoneValue]
       ELSE [raised |-> FALSE, error |-> None, value |-> config]
  ELSE IF ResolveRaises(config.dict)
       THEN [raised |-> TRUE, error |-> "ValueError", value |-> NoneValue]
       ELSE [raised |-> FALSE, error |-> None,
             value |-> Dict(ResolveFixturePaths(config.dict, dir))]

NotResolved == [read |-> FALSE, raised |-> FALSE, error |-> None, value |-> NoneValue]

TaskIdle ==
  /\ raw_mock_config = NoneValue
  /\ fixtures_dir = None
  /\ resolved = NotResolved

TaskInit ==
  /\ raw_mock_config \in RawMockConfigs
  /\ fixtures_dir \in FixturesDirs
  /\ resolved = NotResolved

\* run_task: mock_config = task.resolved_mock_config
ReadResolvedMockConfig ==
  /\ ~resolved.read
  /\ LET r == ResolvedMockConfig(raw_mock_config, fixtures_dir) IN
       resolved' = [read |-> TRUE, raised |-> r.raised, error |-> r.error, value |-> r.value]
  /\ UNCHANGED <<raw_mock_config, fixtures_dir>>
  /\ UNCHANGED offTask

TaskNext == ReadResolvedMockConfig

(***************************************************************************)
(* The paths of the local file tools: agent.py, execute_tool               *)
(***************************************************************************)
MaxParts == 2
MaxPathCalls == 2

\* project_root, an absolute path, by its components
ProjectRoot == <<"work">>

\* the paths the model can supply: relative or absolute, with components that
\* are names or '..'
SuppliedPaths ==
  {[absolute |-> a, parts |-> ps] :
     a \in BOOLEAN, ps \in UNION {[1..n -> {"..", "f", "d"}] : n \in 1..MaxParts}}

\* the file systems a call can find: the working directory holds the file f,
\* and there may be a file f in the root directory or in the directory /d
Disks ==
  { {<<"work", "f">>}, {<<"work", "f">>, <<"f">>}, {<<"work", "f">>, <<"d", "f">>} }

\* project_root / tool_input['path']: pathlib drops the left operand when the
\* right one is absolute
JoinRoot(root, path) == IF path.absolute THEN path.parts ELSE root \o path.parts

\* the directories of a file system: the root, project_root and every directory
\* on the way to a file
Directories(fs) ==
  {<<>>, ProjectRoot}
  \cup UNION {{SubSeq(file, 1, n) : n \in 0..(Len(file) - 1)} : file \in fs}

NoTarget == [found |-> FALSE, at |-> <<>>, error |-> "None"]

RECURSIVE Walk(_, _, _, _)
\* the resolution of a path by the operating system from the directory `at`:
\* '..' goes to the parent (the root is its own parent), a name goes below; a
\* component can only be taken from a directory, which exists or, when
\* `create` is set (mkdir(parents=True, exist_ok=True)), is created on the way
Walk(fs, at, parts, create) ==
  IF parts = <<>> THEN [found |-> TRUE, at |-> at, error |-> "None"]
  ELSE IF at \in fs THEN [NoTarget EXCEPT !.error = "[Errno 20] Not a directory"]
  ELSE IF at \notin Directories(fs) /\ ~create
       THEN [NoTarget EXCEPT !.error = "[Errno 2] No such file or directory"]
  ELSE IF Head(parts) = ".."
       THEN Walk(fs, IF at = <<>> THEN at ELSE SubSeq(at, 1, Len(at) - 1), Tail(parts), create)
       ELSE Walk(fs, Append(at, Head(parts)), Tail(parts), create)

PathOk(target) == [raised |-> FALSE, error |-> "None", target |-> target]
PathError(msg) == [raised |-> TRUE, error |-> msg, target |-> <<>>]

\* the three branches of execute_tool that work on project_root, with the path
\* the call reads or writes when it does not raise
LocalPathBody(tool_name, path, fs) ==
  LET w == Walk(fs, <<>>, JoinRoot(ProjectRoot, path), tool_name = "write_file") IN
    IF ~w.found THEN PathError(w.error)
    ELSE CASE tool_name = "list_files" ->
                IF w.at \in Directories(fs) THEN PathOk(w.at)
                ELSE IF w.at \in fs THEN PathError("[Errno 20] Not a directory")
                ELSE PathError("[Errno 2] No such file or directory")
           [] tool_name = "read_file" ->
                IF w.at \in fs THEN PathOk(w.at)
                ELSE IF w.at \in Directories(fs) THEN PathError("[Errno 21] Is a directory")
                ELSE PathError("[Errno 2] No such file or directory")
           [] tool_name = "write_file" ->
                IF w.at \in Directories(fs) THEN PathError("[Errno 21] Is a directory")
                ELSE PathOk(w.at)

NoPathCall ==
  [called |-> FALSE, tool_name |-> "None", path |-> [absolute |-> FALSE, parts |-> <<>>],
   outcome |-> PathError("None")]

PathsIdle ==
  /\ disk = {}
  /\ path_count = 0
  /\ path_last = NoPathCall

PathsInit ==
  /\ disk \in Disks
  /\ path_count = 0
  /\ path_last = NoPathCall

\* execute_tool(tool_name, {'path': path, ...}) for one of the local file tools
CallLocalTool ==
  /\ path_count < MaxPathCalls
  /\ \E tool_name \in LocalTools, path \in SuppliedPaths :
       LET outcome == LocalPathBody(tool_name, path, disk) IN
         /\ path_last' = [called |-> TRUE, tool_name |-> tool_name, path |-> path,
                          outcome |-> outcome]
         /\ disk' = IF tool_name = "write_file" /\ ~outcome.raised
                    THEN disk \cup {outcome.target} ELSE disk
  /\ path_count' = path_count + 1
  /\ UNCHANGED offPaths

PathsNext == CallLocalTool

(***************************************************************************)
(* The specifications                                                      *)
(***************************************************************************)
vars == <<agentVars, mockVars, launchVars, validatorVars, runVars, otherVars>>

\* the handler before any task touched it
MockIdle ==
  /\ mock_config = <<>>
  /\ boto3_client = Original
  /\ original_client = None
  /\ mock_responses = <<>>
  /\ mock_client = NoClient
  /\ last = Did("init", Returns(None), NoCall)

\* the agent loop before run_agent_loop is entered
AgentIdle ==
  /\ AgentInit
  /\ max_turns = 0
  /\ files = [n \in FileNames |-> Absent]

OthersIdle == MetricsIdle /\ CaptorsIdle /\ CliIdle /\ TaskIdle /\ PathsIdle

Init == AgentInit /\ MockIdle /\ LaunchIdle /\ ValidatorsIdle /\ RunIdle /\ OthersIdle
Next == AgentNext
Spec == Init /\ [][Next]_vars

InitMock == MockInit /\ AgentIdle /\ LaunchIdle /\ ValidatorsIdle /\ RunIdle /\ OthersIdle
NextMock == MockNext
SpecMock == InitMock /\ [][NextMock]_vars

InitLaunch == LaunchInit /\ MockIdle /\ AgentIdle /\ ValidatorsIdle /\ RunIdle /\ OthersIdle
SpecLaunch == InitLaunch /\ [][LaunchNext]_vars

InitValidators == ValidatorsInit /\ AgentIdle /\ MockIdle /\ LaunchIdle /\ RunIdle /\ OthersIdle
SpecValidators == InitValidators /\ [][ValidatorsNext]_vars

InitRun == RunInit /\ AgentIdle /\ MockIdle /\ LaunchIdle /\ ValidatorsIdle /\ OthersIdle
SpecRun == InitRun /\ [][RunNext]_vars

InitMetrics ==
  MetricsInit /\ AgentIdle /\ MockIdle /\ LaunchIdle /\ ValidatorsIdle /\ RunIdle
  /\ CaptorsIdle /\ CliIdle /\ TaskIdle /\ PathsIdle
SpecMetrics == InitMetrics /\ [][MetricsNext]_vars

InitCaptors ==
  CaptorsInit /\ AgentIdle /\ MockIdle /\ LaunchIdle /\ ValidatorsIdle /\ RunIdle
  /\ MetricsIdle /\ CliIdle /\ TaskIdle /\ PathsIdle
SpecCaptors == InitCaptors /\ [][CaptorsNext]_vars

InitCli ==
  CliInit /\ AgentIdle /\ MockIdle /\ LaunchIdle /\ ValidatorsIdle /\ RunIdle
  /\ MetricsIdle /\ CaptorsIdle /\ TaskIdle /\ PathsIdle
SpecCli == InitCli /\ [][CliNext]_vars

InitTask ==
  TaskInit /\ AgentIdle /\ MockIdle /\ LaunchIdle /\ ValidatorsIdle /\ RunIdle
  /\ MetricsIdle /\ CaptorsIdle /\ CliIdle /\ PathsIdle
SpecTask == InitTask /\ [][TaskNext]_vars

InitPaths ==
  PathsInit /\ AgentIdle /\ MockIdle /\ LaunchIdle /\ ValidatorsIdle /\ RunIdle
  /\ MetricsIdle /\ CaptorsIdle /\ CliIdle /\ TaskIdle
SpecPaths == InitPaths /\ [][PathsNext]_vars


(***************************************************************************)
(* Properties of the agent loop (checked under Spec)                       *)
(***************************************************************************)

Last(seq) == seq[Len(seq)]
Front(seq) == SubSeq(seq, 1, Len(seq) - 1)

\* the model responses whose tool requests have all been executed and answered
AnsweredOutputs ==
  IF pc = "for" THEN Front(model_outputs) ELSE model_outputs

RECURSIVE RequestsOf(_)
\* the tool-use requests of the responses that stopped with tool_use, in order
RequestsOf(outputs) ==
  IF outputs = <<>> THEN <<>>
  ELSE RequestsOf(Front(outputs)) \o
       (IF Last(outputs).stopReason = "tool_use"
        THEN [k \in DOMAIN ToolUsesOf(Last(outputs).content) |->
                ToolUsesOf(Last(outputs).content)[k].toolUse]
        ELSE <<>>)

\* the requests of the current turn that the for loop has gone past
DoneInTurn ==
  IF pc = "for"
  THEN LET done == ToolUsesOf(SubSeq(Last(model_outputs).content, 1, idx - 1))
       IN  [k \in DOMAIN done |-> done[k].toolUse]
  ELSE <<>>

\* every request the loop should have executed so far, in order
ExecutedRequests == RequestsOf(AnsweredOutputs) \o DoneInTurn

\* a step that calls execute_tool
ExecuteStep == pc = "for" /\ idx' = idx + 1 /\ IsToolUse(response.content[idx])

\* C1: run_agent_loop calls the model at most max_turns times, and when the
\* budget is used up without end_turn the only thing it does is return the
\* conversation built so far: no exception, no further call.
C1_BoundedTurns ==
  /\ [](model_calls <= max_turns)
  /\ [][(pc = "while" /\ model_calls >= max_turns)
          => (pc' = "returned" /\ returned' = messages /\ model_calls' = model_calls)]_vars
  /\ [](pc = "raised" => Len(model_outputs) < model_calls)

C1_Witness ==
  /\ pc = "returned"
  /\ max_turns > 0
  /\ model_calls = max_turns
  /\ Last(model_outputs).stopReason = "tool_use"
  /\ returned = messages
  /\ Len(returned) = 2 * max_turns + 1

\* C2: after a tool_use stop every request of the assistant message is
\* executed in block order, the results go into exactly one user message
\* that is appended before the next model call, and no model call happens
\* while the requests of a turn are being executed.
C2_BatchedResults ==
  /\ [](/\ Len(tool_calls) = Len(ExecutedRequests)
        /\ \A k \in DOMAIN tool_calls :
             /\ tool_calls[k].tool_name = ExecutedRequests[k].name
             /\ tool_calls[k].parameters = ParamsToLog(ExecutedRequests[k].input))
  /\ [](\A t \in DOMAIN AnsweredOutputs :
          AnsweredOutputs[t].stopReason = "tool_use" =>
             /\ Len(messages) >= 2 * t + 1
             /\ messages[2 * t + 1].role = "user"
             /\ Len(messages[2 * t + 1].content)
                  = Len(ToolUsesOf(AnsweredOutputs[t].content))
             /\ \A k \in DOMAIN messages[2 * t + 1].content :
                  "toolResult" \in DOMAIN messages[2 * t + 1].content[k])
  /\ [](Len(messages) = 1 + Len(model_outputs)
          + Cardinality({t \in DOMAIN AnsweredOutputs :
                           AnsweredOutputs[t].stopReason = "tool_use"}))
  /\ [][pc = "for" => model_calls' = model_calls]_vars
  /\ [][model_calls' # model_calls => Last(messages).role = "user"]_vars

C2_Witness ==
  /\ pc = "while"
  /\ Len(model_outputs) = 1
  /\ Len(ToolUsesOf(model_outputs[1].content)) = 2
  /\ Len(messages) = 3
  /\ Len(messages[3].content) = 2
  /\ Len(tool_calls) = 2

\* the identifiers of the tool-result blocks of a user message, in order
ResultIds(message) ==
  [k \in DOMAIN message.content |-> message.content[k].toolResult.toolUseId]

\* the identifiers of the tool-use requests of a content list, in order
RequestIds(content) ==
  [k \in DOMAIN ToolUsesOf(content) |-> ToolUsesOf(content)[k].toolUse.toolUseId]

RECURSIVE AllResultIds(_)
\* the identifiers of all tool-result blocks of a conversation, in order
AllResultIds(msgs) ==
  IF Len(msgs) <= 1 THEN <<>>
  ELSE AllResultIds(Front(msgs)) \o
       (IF Last(msgs).role = "user" THEN ResultIds(Last(msgs)) ELSE <<>>)

C4_RecordedAndSwallowed ==
  /\ [][ExecuteStep => /\ Len(tool_calls') = Len(tool_calls) + 1
                       /\ SubSeq(tool_calls', 1, Len(tool_calls)) = tool_calls
                       /\ pc' = "for"
                       /\ Len(tool_results') = Len(tool_results) + 1]_vars
  /\ [][~ExecuteStep => tool_calls' = tool_calls]_vars
  /\ [][pc' = "raised" => (pc = "while" /\ model_calls' = model_calls + 1)]_vars
  /\ [][(pc = "for" /\ idx > Len(response.content))
          => (pc' = "while" /\ Len(messages') = Len(messages) + 1)]_vars

\* a failed call followed by another call of the same turn and by the next model call
C4_Witness ==
  /\ Len(model_outputs) = 2
  /\ Len(tool_calls) = 2
  /\ ~tool_calls[1].success
  /\ tool_calls[2].success
  /\ Len(ToolUsesOf(model_outputs[1].content)) = 2

\* what the body of execute_tool did with the request of an execute step
RaisedBy(tool_name, tool_input, fs, callsAfter) ==
  IF tool_name \in LocalTools
  THEN LocalToolBody(tool_name, tool_input, fs)
  ELSE RemoteToolBody(Last(callsAfter).outcome, fs)

\* C5: when the tool raises, execute_tool returns a content block with the
\* error text and records success = false with the exception message; when
\* it does not raise, the record has success = true and no error.
C5_ErrorRecord ==
  [][ExecuteStep =>
       LET tool_use == response.content[idx].toolUse
           body == RaisedBy(tool_use.name, AddToolUseId(tool_use.input, tool_use.toolUseId),
                            files, remote_calls')
           record == Last(tool_calls')
           result == Last(tool_results').toolResult
       IN  /\ record.tool_name = tool_use.name
           /\ result.toolUseId = tool_use.toolUseId
           /\ body.raised =>
                /\ record.success = FALSE
                /\ record.error = body.error
                /\ result.content = <<[text |-> <<"Error: ", body.error>>]>>
           /\ ~body.raised =>
                /\ record.success = TRUE
                /\ record.error = None
                /\ result.content[1].text[1] # "Error: "]_vars

\* read_file of a missing file, then a failing remote call, then a call that works
C5_Witness ==
  /\ Len(tool_calls) = 2
  /\ tool_calls[1].tool_name = "read_file"
  /\ ~tool_calls[1].success
  /\ tool_calls[1].error = "[Errno 2] No such file or directory"
  /\ tool_calls[2].tool_name = "get_slo"
  /\ ~tool_calls[2].success
  /\ tool_calls[2].error = "Connection closed"
  /\ pc = "for"
  /\ Len(tool_results) = 2
  /\ tool_results[1].toolResult.content[1].text[1] = "Error: "

\* the executed requests that are not file operations
RemoteRequests == SelectSeq(ExecutedRequests, LAMBDA r : r.name \notin LocalTools)

\* C6: a tool call that is not a file operation reaches call_tool with the
\* tool name and exactly the input map of the model's tool-use request.
C6_ForwardedUnmodified ==
  /\ Len(remote_calls) = Len(RemoteRequests)
  /\ \A k \in DOMAIN remote_calls :
       /\ remote_calls[k].call.name = RemoteRequests[k].name
       /\ remote_calls[k].call.arguments = RemoteRequests[k].input


(***************************************************************************)
(* Properties of the mock handler (checked under SpecMock)                 *)
(***************************************************************************)

\* the last step was a call of a mocked operation
MockedCall == last.op = "call" /\ last.call.matchers # <<>>

\* the matching rule as documented: every key of the pattern is present in
\* the call's arguments with an equal value
Matches(pattern, kwargs) ==
  \A key \in DOMAIN pattern : key \in DOMAIN kwargs /\ kwargs[key] = pattern[key]

IsEmptyPattern(pattern) == DOMAIN pattern = {}

\* the test the loop applies to a pattern, spelled out: the pattern is empty,
\* or every key of the pattern has its value in the call, where an argument
\* that is missing from the call reads as None
Selected(pattern, kwargs) ==
  \/ DOMAIN pattern = {}
  \/ \A key \in DOMAIN pattern :
       (IF key \in DOMAIN kwargs THEN kwargs[key] ELSE None) = pattern[key]

FirstMatch(ms, kw) ==
  IF \E i \in DOMAIN ms : IsEmptyPattern(ms[i].request) \/ Matches(ms[i].request, kw)
  THEN CHOOSE i \in DOMAIN ms :
         /\ IsEmptyPattern(ms[i].request) \/ Matches(ms[i].request, kw)
         /\ \A j \in 1..(i - 1) :
              ~(IsEmptyPattern(ms[j].request) \/ Matches(ms[j].request, kw))
  ELSE 0

\* C8: the matchers are tried in declared order and the first one that
\* matches the call decides the response; a wildcard declared first wins
\* over a specific pattern that the call matches.
C8_FirstMatchWins ==
  MockedCall =>
    LET ms == last.call.matchers
        kw == last.call.kwargs
    IN  FirstMatch(ms, kw) # 0 =>
          /\ ~last.outcome.raised
          /\ last.outcome.value = ms[FirstMatch(ms, kw)].response

\* C9: a call that matches none of the matchers raises an error that names
\* the operation, the supplied arguments and the available patterns.
C9_NoMatchRaises ==
  MockedCall =>
    LET ms == last.call.matchers
        kw == last.call.kwargs
    IN  FirstMatch(ms, kw) = 0 =>
          /\ last.outcome.raised
          /\ last.outcome.error.type = "ValueError"
          /\ last.outcome.error.operation = last.call.operation
          /\ last.outcome.error.parameters = kw
          /\ last.outcome.error.patterns = [j \in DOMAIN ms |-> ms[j].request]

Pristine ==
  /\ boto3_client = Original
  /\ original_client = None
  /\ mock_responses = <<>>

UnpatchStep == last'.op = "unpatch"

\* C10: unpatch after a patch of the pristine entry point restores it, an
\* unpatch leaves nothing for a second unpatch to undo, and unpatch on a
\* handler that holds no saved entry point changes nothing and raises nothing.
C10_UnpatchIdempotent ==
  /\ [][(last'.op = "patch" /\ Pristine) => original_client' = Original]_vars
  /\ [][(UnpatchStep /\ original_client = Original) => Pristine']_vars
  /\ [][UnpatchStep => (original_client' = None /\ ~last'.outcome.raised)]_vars
  /\ [][(UnpatchStep /\ original_client = None)
          => UNCHANGED <<boto3_client, original_client, mock_responses>>]_vars

\* the handler was patched (a mocked client exists) and then unpatched
C10_Witness ==
  /\ last.op = "unpatch"
  /\ mock_client.kind = "mock"
  /\ Pristine

(***************************************************************************)
(* The registry, the launcher and the wrapper: C11 to C14                  *)
(***************************************************************************)

\* the position of the first top-level key with no registered handler, 0 if there is none
FirstUnregistered(config) ==
  IF \E i \in DOMAIN config : config[i].library \notin BuiltinHandlers
  THEN CHOOSE i \in DOMAIN config :
         /\ config[i].library \notin BuiltinHandlers
         /\ \A j \in 1..(i - 1) : config[j].library \in BuiltinHandlers
  ELSE 0

\* the top-level keys before position k, in order
KeysBefore(config, k) == [j \in 1..(k - 1) |-> config[j].library]

\* a step in which patch_all runs on a non-empty configuration
PatchAllStep == wrapper_pc = "loaded" /\ wrapper_pc' = "applied" /\ Len(wrapper_config) > 0

\* C11: patch_all raises ValueError at the first top-level key that has no
\* registered handler and rolls nothing back: the handlers of the keys before
\* it have been patched and stay patched, the keys after it are not applied.
C11_FailFastNoRollback ==
  [][PatchAllStep =>
       LET config == wrapper_config
           k == FirstUnregistered(config)
           boto3Before == \E j \in 1..(k - 1) : config[j].library = "boto3"
       IN  (k > 0 /\ \A j \in 1..(k - 1) : ~PatchRaises(config[j].config)) =>
             /\ patch_all_result'.raised
             /\ patch_all_result'.error = "ValueError"
             /\ patch_all_result'.at = k
             /\ patched' = patched \o KeysBefore(config, k)
             /\ boto3Before => (boto3_client' = MockFactory /\ original_client' = Original)
             /\ ~boto3Before => UNCHANGED <<boto3_client, original_client, mock_responses>>]_vars

\* patch_all patched boto3, then raised at the second key, and boto3 is still patched
C11_Witness ==
  /\ patch_all_result.called /\ patch_all_result.raised
  /\ patch_all_result.error = "ValueError" /\ patch_all_result.at = 2
  /\ Len(patch_all_result.config) = 2
  /\ patched = <<"boto3">>
  /\ boto3_client = MockFactory

\* C12: when the launcher is given a non-empty mock configuration and the tool
\* host has been started, the temporary file holds that configuration, the
\* wrapper has read that same file, and the handlers were patched with that
\* configuration before the tool host was imported.
C12_WrapperReadsLaunchedFile ==
  (host.started /\ Len(task_mock_config) > 0) =>
    /\ tmp_files[TempPath] = JsonDump(task_mock_config)
    /\ wrapper_read = TempPath
    /\ patch_all_result.called
    /\ patch_all_result.config = task_mock_config

\* C13: the tool host is never started after a mock configuration error: no
\* failed patch_all and no mock file that could not be loaded.
C13_MockErrorsFatal ==
  host.started =>
    /\ ~patch_all_result.raised
    /\ \A i \in DOMAIN stderr : stderr[i] # "Warning: Failed to load mock config"

\* C14: once run_task has ended (returned or raised), the temporary file that
\* connect_to_mcp_server created is gone.
C14_TempFileDeleted ==
  launch_pc \in {"returned", "raised"} => tmp_files[TempPath] = NoFile

(***************************************************************************)
(* The runner and the executor: C15 and C16                                *)
(***************************************************************************)

\* a step in which a step of the current task's pipeline raises
RaisingStep == Len(run_log') = Len(run_log) + 1 /\ Last(run_log').raised # None

\* C15: run_all catches the exception of a task's pipeline, wherever it is
\* raised, and reports it as a result with the task's id, the error and
\* success false; run_all itself never raises, the next task is started, and the
\* returned list holds one result per task, in task order.
C15_BatchSurvivesTaskError ==
  /\ [][RaisingStep =>
          /\ results' = Append(results, [task_id |-> tasks[task_index].id,
                                         error |-> Last(run_log').raised,
                                         success |-> FALSE])
          /\ task_index' = task_index + 1
          /\ run_pc' = "run_all"]_vars
  /\ [](run_pc \in {"idle", "run_all", "validators", "returned"})
  /\ [](run_pc = "returned" =>
          /\ Len(results) = Len(tasks)
          /\ Len(run_log) = Len(tasks)
          /\ \A i \in DOMAIN tasks :
               /\ results[i].task_id = tasks[i].id
               /\ run_log[i].task_id = tasks[i].id
               /\ (run_log[i].raised # None) <=> ("error" \in DOMAIN results[i]))

\* the first task raised in its agent loop, the second ran its validators and the
\* batch returned both results
C15_Witness ==
  /\ run_pc = "returned"
  /\ Len(results) = 2
  /\ "error" \in DOMAIN results[1] /\ results[1].error = "agent loop"
  /\ ~results[1].success
  /\ "validation_results" \in DOMAIN results[2]
  /\ Len(results[2].validation_results) = 2

\* C16: the success of a result of execute_prompt is true exactly when each of
\* its validator results has an overall_pass field that is true.
C16_SuccessIsAndOfValidators ==
  \A i \in DOMAIN results :
    "validation_results" \in DOMAIN results[i] =>
      (results[i].success <=>
         \A k \in DOMAIN results[i].validation_results :
           /\ "overall_pass" \in DOMAIN results[i].validation_results[k]
           /\ results[i].validation_results[k].overall_pass)

\* a task whose first validator passed and whose second returned no overall_pass
\* is not a success, and a task whose two validators passed is one
C16_Witness ==
  /\ Len(results) = 2
  /\ "validation_results" \in DOMAIN results[1]
  /\ "validation_results" \in DOMAIN results[2]
  /\ Len(results[1].validation_results) = 2
  /\ "overall_pass" \in DOMAIN results[1].validation_results[1]
  /\ results[1].validation_results[1].overall_pass
  /\ "overall_pass" \notin DOMAIN results[1].validation_results[2]
  /\ ~results[1].success
  /\ Len(results[2].validation_results) = 2
  /\ results[2].success

(***************************************************************************)
(* The validators: C17 to C20                                              *)
(***************************************************************************)

\* the judge answered with a text and validate returned the parsed result
Parsed ==
  /\ validated.validator = "LLM Judge"
  /\ validated.outcome.kind = "text"
  /\ ~validated.call.raised

\* the line carries a verdict marker, in the letter case given / in any letter case
HasMarker(line) == Contains(line, "[PASS]") \/ Contains(line, "[FAIL]")
HasMarkerAnyCase(line) ==
  Contains(UpperLine(line), "[PASS]") \/ Contains(UpperLine(line), "[FAIL]")

Min(a, b) == IF a <= b THEN a ELSE b

\* the errors of a validator: the LLM call fails, the judge's answer has no text
\* or no line with a verdict, the build command cannot be spawned
ValidatorError ==
  \/ /\ validated.validator = "LLM Judge"
     /\ validated.client # None
     /\ \/ validated.outcome.kind \in {"raises", "no_text"}
        \/ /\ validated.outcome.kind = "text"
           /\ \A i \in DOMAIN validated.outcome.text : ~HasMarkerAnyCase(validated.outcome.text[i])
  \/ /\ validated.validator = "Build"
     /\ validated.outcome.kind = "OSError"

\* C17: a validator error is returned, not raised, as a result with
\* overall_pass false and error set.
C17_ValidatorErrorsCaptured ==
  ValidatorError =>
    /\ ~validated.call.raised
    /\ ~validated.call.result.overall_pass
    /\ "error" \in DOMAIN validated.call.result

\* C18: the lines of the judge's answer that contain [PASS] or [FAIL] are the
\* accepted ones: the result has min(number of such lines, length of the rubric)
\* entries, the N-th entry is for the N-th criterion and has the status whose
\* marker the N-th such line contains.
C18_TaggedLinesOnly ==
  Parsed =>
    LET accepted == SelectSeq(validated.outcome.text, HasMarker)
        criteria_results == validated.call.result.criteria_results
    IN  /\ Len(criteria_results) = Min(Len(accepted), Len(rubric))
        /\ \A n \in DOMAIN criteria_results :
             /\ criteria_results[n].criterion = rubric[n]
             /\ Contains(accepted[n], "[" \o criteria_results[n].status \o "]")

\* C18, amended: the accepted lines are those that contain [PASS] or [FAIL] once
\* put in upper case; the result has min(number of accepted lines, length of
\* the rubric) entries, the N-th entry is for the N-th criterion and has the
\* status whose marker the N-th accepted line contains in some letter case.
C18_TaggedLinesAnyCase ==
  Parsed =>
    LET accepted == SelectSeq(validated.outcome.text, HasMarkerAnyCase)
        criteria_results == validated.call.result.criteria_results
    IN  /\ Len(criteria_results) = Min(Len(accepted), Len(rubric))
        /\ \A n \in DOMAIN criteria_results :
             /\ criteria_results[n].criterion = rubric[n]
             /\ Contains(UpperLine(accepted[n]), "[" \o criteria_results[n].status \o "]")

\* a rubric of three criteria and an answer of two tagged lines and one line
\* without a marker: two entries
C18_Witness ==
  /\ Parsed
  /\ Len(rubric) = 3
  /\ Len(validated.outcome.text) = 3
  /\ Len(SelectSeq(validated.outcome.text, HasMarkerAnyCase)) = 2
  /\ ~HasMarkerAnyCase(validated.outcome.text[2])
  /\ Len(validated.call.result.criteria_results) = 2
  /\ validated.call.result.criteria_results[2].criterion = rubric[2]

\* C19: the overall_pass of a parsed judge answer is the conjunction of the
\* statuses in criteria_results; the criteria of the rubric that got no entry
\* play no part in it.
C19_OverallPassOverPresent ==
  Parsed =>
    LET criteria_results == validated.call.result.criteria_results IN
      validated.call.result.overall_pass <=>
        \A n \in DOMAIN criteria_results : criteria_results[n].status = "PASS"

\* a rubric of three criteria, two entries that pass: the validator passes
C19_Witness ==
  /\ Parsed
  /\ Len(rubric) = 3
  /\ Len(validated.call.result.criteria_results) = 2
  /\ validated.call.result.overall_pass

\* C20: BuildValidator.validate returns, whatever the command does, a result
\* with the single criterion 'Build succeeds'; it is PASS with overall_pass true
\* exactly for exit code 0; another exit code gives FAIL with the code in the
\* reasoning; a timeout or a spawn failure gives FAIL with error set.
C20_BuildSingleCriterion ==
  validated.validator = "Build" =>
    /\ ~validated.call.raised
    /\ LET result == validated.call.result
           outcome == validated.outcome
           exited == outcome.kind = "exit"
       IN  /\ Len(result.criteria_results) = 1
           /\ result.criteria_results[1].criterion = "Build succeeds"
           /\ result.criteria_results[1].status \in {"PASS", "FAIL"}
           /\ result.criteria_results[1].status = "PASS" <=> (exited /\ outcome.code = 0)
           /\ result.overall_pass <=> (exited /\ outcome.code = 0)
           /\ (exited /\ outcome.code # 0) =>
                Last(result.criteria_results[1].reasoning) = ToString(outcome.code)
           /\ exited => "error" \notin DOMAIN result
           /\ ~exited => "error" \in DOMAIN result

\* the command was killed and exited with 137: one FAIL criterion citing 137
C20_Witness ==
  /\ validated.validator = "Build"
  /\ validated.outcome.kind = "exit" /\ validated.outcome.code = 137
  /\ validated.call.result.criteria_results[1].status = "FAIL"
  /\ validated.call.result.criteria_results[1].reasoning = <<"Build failed with exit code ", "137">>
  /\ ~validated.call.result.overall_pass

(***************************************************************************)
(* Properties of the metrics tracker (checked under SpecMetrics)           *)
(***************************************************************************)

\* the names of the tools in a list of recorded calls
CalledNames(calls) == {calls[i].tool_name : i \in DOMAIN calls}

\* C21: for a non-empty expected_tools, get_metrics reports hit_rate =
\* |called /\ expected| / |expected|; the rate is 1.0 exactly when every expected
\* tool was called at least once (failed calls count); the missing and the called
\* expected tools partition the expected set and the unexpected ones are outside it
C21_HitRate ==
  (got_metrics.called /\ expected_tools # <<>>) =>
    LET m == got_metrics.metrics
        called == CalledNames(m.tool_calls_detail)
        expected == Range(expected_tools)
    IN  /\ "hit_rate" \in DOMAIN m
        /\ m.hit_rate.den # 0
        /\ m.hit_rate.num * Cardinality(expected)
             = Cardinality(called \cap expected) * m.hit_rate.den
        /\ (m.hit_rate.num = m.hit_rate.den) <=> (expected \subseteq called)
        /\ Range(m.missing_expected_tools) \cup Range(m.expected_tools_called) = expected
        /\ Range(m.missing_expected_tools) \cap Range(m.expected_tools_called) = {}
        /\ Range(m.unexpected_tools_called) \cap expected = {}
        /\ Range(m.unexpected_tools_called) = called \ expected

\* two expected tools, both called, one of them only by a call that failed
C21_Witness ==
  /\ got_metrics.called
  /\ Cardinality(Range(expected_tools)) = 2
  /\ got_metrics.metrics.hit_rate.num = got_metrics.metrics.hit_rate.den
  /\ \E t \in Range(expected_tools) :
       \A i \in DOMAIN got_metrics.metrics.tool_calls_detail :
         got_metrics.metrics.tool_calls_detail[i].tool_name = t
           => ~got_metrics.metrics.tool_calls_detail[i].success
  /\ Len(got_metrics.metrics.tool_calls_detail) = 3

\* C22: get_metrics with an empty expected_tools reports a hit rate of 0.0: the
\* key is in the dict and its value is 0.0
C22_EmptyExpectedHitRateZero ==
  (got_metrics.called /\ expected_tools = <<>>) =>
    /\ "hit_rate" \in DOMAIN got_metrics.metrics
    /\ SameFloat(got_metrics.metrics.hit_rate, Ratio(0, 1))

\* C23: success_rate is 0.0 when no call was recorded and otherwise the number
\* of records with success = true over the number of records
C23_SuccessRate ==
  got_metrics.called =>
    LET m == got_metrics.metrics
        calls == m.tool_calls_detail
        succeeded == {i \in DOMAIN calls : calls[i].success}
    IN  /\ m.success_rate.den # 0
        /\ IF calls = <<>> THEN m.success_rate.num = 0
           ELSE m.success_rate.num * Len(calls) = Cardinality(succeeded) * m.success_rate.den

\* get_metrics was called on a tracker with no record
C23_Witness ==
  /\ got_metrics.called
  /\ got_metrics.metrics.tool_call_count = 0
  /\ got_metrics.metrics.success_rate.num = 0

(***************************************************************************)
(* Properties of the file tools (checked under Spec)                       *)
(***************************************************************************)

\* the successful write_file records for path p among the recorded calls
WritesTo(calls, p) ==
  {i \in DOMAIN calls : /\ calls[i].tool_name = "write_file"
                        /\ calls[i].success
                        /\ calls[i].parameters.path = p}

Max(S) == CHOOSE m \in S : \A n \in S : n <= m

\* C24: a read_file that follows a write_file to the same path in the same
\* conversation, with no other write to the path in between, returns exactly the
\* content that was written
C24_WriteReadRoundTrip ==
  [][(/\ Len(tool_calls') = Len(tool_calls) + 1
      /\ Last(tool_calls').tool_name = "read_file"
      /\ Last(tool_calls').success
      /\ WritesTo(tool_calls, Last(tool_calls').parameters.path) # {})
     => LET p == Last(tool_calls').parameters.path
            written == tool_calls[Max(WritesTo(tool_calls, p))].parameters.content
        IN  Last(tool_results').toolResult.content[1].text = <<written>>]_vars

(***************************************************************************)
(* Properties of the captors (checked under SpecCaptors)                   *)
(***************************************************************************)

\* the text blocks of the assistant messages of a conversation, in order
RECURSIVE AssistantTexts(_)
AssistantTexts(msgs) ==
  IF msgs = <<>> THEN <<>>
  ELSE AssistantTexts(Front(msgs)) \o
       (IF Last(msgs).role = "assistant" THEN SelectSeq(Last(msgs).content, HasText)
        ELSE <<>>)

\* C25: FinalResponseCaptor.capture returns the last assistant text block of the
\* conversation; when no assistant message has a text block it returns an empty
\* final_response with an error marker
C25_LastAssistantText ==
  captured.called =>
    LET texts == AssistantTexts(capture_messages) IN
      IF texts = <<>>
      THEN /\ captured.result.final_response = ""
           /\ "error" \in DOMAIN captured.result
      ELSE /\ captured.result.final_response = Last(texts).text
           /\ "error" \notin DOMAIN captured.result

(***************************************************************************)
(* Properties of the command line entry point (checked under SpecCli)      *)
(***************************************************************************)

\* the tasks main started run_task on
TasksRun == {cli_log[i].task : i \in {j \in DOMAIN cli_log : cli_log[j].event = "run_task"}}

\* task t was cleaned up after its run_task call ended
CleanedAfterRun(t) ==
  \E i, j \in DOMAIN cli_log :
    /\ i < j
    /\ cli_log[i].event = "run_task" /\ cli_log[i].task = t
    /\ cli_log[j].event = "cleanup" /\ cli_log[j].task = t

\* C26: when main has ended and cleanup was not suppressed, every task that was
\* run had its cleanup invoked after its validators finished, whether the task
\* passed, failed its validators or ended in an error
C26_CleanupAfterEveryTask ==
  (cli_pc \in {"returned", "exit 1"} /\ ~args_no_cleanup) =>
    \A t \in TasksRun : CleanedAfterRun(t)

\* a main that returns has cleaned every task it ran
CleanupWhenMainReturns ==
  (cli_pc = "returned" /\ ~args_no_cleanup) => \A t \in TasksRun : CleanedAfterRun(t)

(***************************************************************************)
(* Properties of the mock configuration of a task (checked under SpecTask) *)
(***************************************************************************)

\* the request/response pair dicts of an operation value
PairsOf(value) ==
  IF IsList(value)
  THEN {value.list[i] : i \in {j \in DOMAIN value.list : ~PairRaises(value.list[j])}}
  ELSE IF ~PairRaises(value) THEN {value} ELSE {}

\* the configuration has a request/response pair whose response is a relative
\* fixture file name
RelativeFixtureInPair(config) ==
  /\ IsDict(config)
  /\ \E l \in DOMAIN config.dict : \E sv \in DOMAIN config.dict[l].dict :
       \E o \in DOMAIN config.dict[l].dict[sv].dict :
         \E pair \in PairsOf(config.dict[l].dict[sv].dict[o]) :
           /\ IsStr(pair.dict.response)
           /\ IsRelativeFixture(pair.dict.response.str)

\* C27: resolved_mock_config raises ValueError whenever mock_config has a relative
\* fixture file reference inside a request/response pair and fixtures_dir is not
\* given; it returns None when there is no mock_config
C27_MissingFixturesDirRaises ==
  resolved.read =>
    /\ (RelativeFixtureInPair(raw_mock_config) /\ fixtures_dir = None)
         => (resolved.raised /\ resolved.error = "ValueError")
    /\ ("none" \in DOMAIN raw_mock_config)
         => (~resolved.raised /\ "none" \in DOMAIN resolved.value)

(***************************************************************************)
(* Properties of the stop reasons and of the retries (checked under Spec)  *)
(***************************************************************************)

\* a step in which the model answered
ModelAnswered == Len(model_outputs') = Len(model_outputs) + 1

UnexpectedStop(stop) == <<"Unexpected stop reason: ", stop>>

\* C28: the loop follows the stop reason of each response: end_turn ends it with
\* no tool executed and no stop-reason warning; tool_use makes it execute every
\* requested tool and call the model again when turns remain; any other stop
\* reason ends it with a warning and no tool executed, and the conversation it
\* returns ends with that assistant message
C28_StopReasonDecides ==
  /\ [][ModelAnswered =>
         LET stop == response'.stopReason
             message == [role |-> "assistant", content |-> response'.content]
         IN  /\ tool_calls' = tool_calls
             /\ stop = "tool_use" => (pc' = "for" /\ warnings' = warnings)
             /\ stop # "tool_use" =>
                  /\ pc' = "returned"
                  /\ returned' = messages'
                  /\ Last(returned') = message
                  /\ \A w \in Range(warnings') \ Range(warnings) :
                       w = UnexpectedStop(stop) \/ w = <<"Reached max turns">>
                  /\ (stop # "end_turn") <=>
                       (UnexpectedStop(stop) \in Range(warnings') \ Range(warnings))]_vars
  /\ [][pc = "returned" => UNCHANGED <<tool_calls, model_calls, messages, returned>>]_vars
  /\ [][(pc = "for" /\ pc' = "while") =>
          /\ Len(tool_results) = Len(ToolUsesOf(response.content))
          /\ Last(messages').content = tool_results]_vars
  /\ [][(pc = "while" /\ turn < max_turns) => model_calls' = model_calls + 1]_vars

\* the loop ran a tool in its first turn and was ended in its second by a stop
\* reason it does not know, with a tool request left unexecuted
C28_Witness ==
  /\ pc = "returned"
  /\ Len(model_outputs) = 2
  /\ model_outputs[1].stopReason = "tool_use"
  /\ model_outputs[2].stopReason = "max_tokens"
  /\ Len(ToolUsesOf(model_outputs[2].content)) = 1
  /\ Len(tool_calls) = 1
  /\ UnexpectedStop("max_tokens") \in Range(warnings)
  /\ Last(returned).role = "assistant"

\* C29: nothing is retried: the model is called exactly once in each turn, each
\* tool request is executed exactly once, and an exception of the model call ends
\* run_agent_loop at once, with no further model call
C29_NothingRetried ==
  /\ [](model_calls = turn)
  /\ [](Len(tool_calls) = Len(ExecutedRequests))
  /\ [][(model_calls' = model_calls + 1 /\ model_outputs' = model_outputs)
          => pc' = "raised"]_vars
  /\ [][pc # "raised"]_vars
  /\ [](pc = "raised" => returned = <<>>)

\* the model call of the second turn raised, after a turn that executed two tools
C29_Witness ==
  /\ pc = "raised"
  /\ model_calls = 2
  /\ Len(model_outputs) = 1
  /\ Len(tool_calls) = 2

(***************************************************************************)
(* Properties of the order of the tasks (checked under SpecRun)            *)
(***************************************************************************)

\* C30: the tasks of a batch run one after another: at most one task has a
\* subprocess channel and a session open at any time, they are those of the
\* task being run, and they are closed on every exit of run_task, by return or
\* by exception, before run_all launches the next task or returns
C30_OneTaskAtATime ==
  /\ [](\A a, b \in open_resources : a.task = b.task)
  /\ [](run_pc = "validators" =>
          \A o \in open_resources : o.task = tasks[task_index].id)
  /\ [](run_pc \in {"run_all", "returned"} => open_resources = {})
  /\ [][task_index' # task_index => open_resources' = {}]_vars

\* the second task of a batch has its channel open after the first one ended
\* in an exception raised while its own channel was open
C30_Witness ==
  /\ run_pc = "validators"
  /\ task_index = 2
  /\ Len(run_log) = 1
  /\ run_log[1].raised \notin {None, "launch"}
  /\ Cardinality(open_resources) = 2
  /\ \A o \in open_resources : o.task = tasks[2].id

(***************************************************************************)
(* Properties of the order of the steps of a task (checked under SpecRun)  *)
(***************************************************************************)

\* the task of the batch with this id
TaskWithId(id) == CHOOSE t \in Range(tasks) : t.id = id

\* the order of the steps of a task that runs to its result
PipelineOrder(task) ==
  <<Step("handshake", None), Step("agent loop", None)>>
  \o [i \in DOMAIN task.captors |-> Step("captor", task.captors[i])]
  \o [i \in DOMAIN task.validators |-> Step("validator", task.validators[i])]
  \o <<Step("result", None)>>

IsPrefix(s, t) == Len(s) <= Len(t) /\ s = SubSeq(t, 1, Len(s))

\* C31: within one task the steps are completed in the order handshake and tool
\* listing, agent loop, the captors in the task's captor order, the validators in
\* the task's validator order, the aggregated result: each step is taken one at
\* a time and only after all the steps before it
C31_PipelineOrder ==
  /\ [](steps.task_id # None =>
          IsPrefix(steps.done, PipelineOrder(TaskWithId(steps.task_id))))
  /\ [][steps'.task_id = steps.task_id =>
          /\ IsPrefix(steps.done, steps'.done)
          /\ Len(steps'.done) <= Len(steps.done) + 1]_vars

\* a task with captors and two validators has gone through every step to its result
C31_Witness ==
  /\ steps.task_id # None
  /\ steps.done = PipelineOrder(TaskWithId(steps.task_id))
  /\ Len(TaskWithId(steps.task_id).captors) = 2
  /\ Len(TaskWithId(steps.task_id).validators) = 2

(***************************************************************************)
(* Properties of the matching test (checked under SpecMock)                *)
(***************************************************************************)

\* C32: a non-empty request pattern matches a call exactly when every key of
\* the pattern is present in the call's arguments with an equal value: the
\* first matcher of an operation, when its pattern is not empty, answers the
\* call if the call matches it so, and a call it is the only matcher of raises
\* if a key of the pattern is absent from the arguments or has another value.
C32_PatternMatchesExactly ==
  MockedCall =>
    LET ms == last.call.matchers
        kw == last.call.kwargs
    IN  ~IsEmptyPattern(ms[1].request) =>
          /\ Matches(ms[1].request, kw)
               => (~last.outcome.raised /\ last.outcome.value = ms[1].response)
          /\ (~Matches(ms[1].request, kw) /\ Len(ms) = 1) => last.outcome.raised

(***************************************************************************)
(* Properties of the maximum-turns warning (checked under Spec)            *)
(***************************************************************************)

MaxTurnsWarned == <<"Reached max turns">> \in Range(warnings)

LastStopReason ==
  IF Len(model_outputs) = 0 THEN None ELSE Last(model_outputs).stopReason

\* C33: when run_agent_loop has returned, the maximum-turns warning is recorded
\* if the loop used its whole turn budget without a terminal stop reason, and it
\* is not recorded if the run ended with end_turn, on whichever turn
C33_MaxTurnsWarning ==
  pc = "returned" =>
    /\ (turn >= max_turns /\ LastStopReason \in {None, "tool_use"}) => MaxTurnsWarned
    /\ LastStopReason = "end_turn" => ~MaxTurnsWarned

(***************************************************************************)
(* Properties of repeated patches (checked under SpecMock)                 *)
(***************************************************************************)

\* C34: after any sequence of patch and unpatch calls on the handler that ends
\* with unpatch, patch called twice in a row included, boto3.client is the
\* original entry point and no mock responses remain
C34_UnpatchRestoresOriginal ==
  [][UnpatchStep => (boto3_client' = Original /\ mock_responses' = <<>>)]_vars

(***************************************************************************)
(* Properties of the order of cleanups (checked under SpecCli)             *)
(***************************************************************************)

\* C35: in a batch run through main, when cleanup is not suppressed, the cleanup
\* of task N is done before run_task, and so the agent loop and the captors, of
\* task N+1 starts
C35_CleanupBeforeNextTask ==
  ~args_no_cleanup =>
    \A j \in DOMAIN cli_log :
      (cli_log[j].event = "run_task" /\ cli_log[j].task > 1) =>
        \E i \in 1..(j - 1) :
          cli_log[i].event = "cleanup" /\ cli_log[i].task = cli_log[j].task - 1

(***************************************************************************)
(* Properties of the paths of the file tools (checked under SpecPaths)     *)
(***************************************************************************)

\* C36: for every path the model supplies, absolute paths and paths with '..'
\* included, a call of list_files, read_file or write_file either fails with an
\* error result or reads or writes a path inside project_root
C36_PathsStayInProjectRoot ==
  path_last.called =>
    \/ path_last.outcome.raised
    \/ IsPrefix(ProjectRoot, path_last.outcome.target)

(***************************************************************************)
(* The captors on the conversation of the agent loop (checked under Spec)  *)
(***************************************************************************)

IsAssistant(message) == message.role = "assistant"

RECURSIVE ToolCallsCapture(_)
\* ToolCallsCaptor.capture: the name and the input of every toolUse block of
\* every assistant message, in order
ToolCallsCapture(msgs) ==
  IF msgs = <<>> THEN <<>>
  ELSE ToolCallsCapture(Front(msgs)) \o
       (IF IsAssistant(Last(msgs))
        THEN LET uses == ToolUsesOf(Last(msgs).content)
             IN  [i \in DOMAIN uses |-> [name |-> uses[i].toolUse.name,
                                         input |-> uses[i].toolUse.input]]
        ELSE <<>>)

RECURSIVE ModelToolUses(_)
\* the name and the input of every tool-use request the model produced, in order
ModelToolUses(outputs) ==
  IF outputs = <<>> THEN <<>>
  ELSE ModelToolUses(Front(outputs)) \o
       (LET uses == ToolUsesOf(Last(outputs).content)
        IN  [i \in DOMAIN uses |-> [name |-> uses[i].toolUse.name,
                                    input |-> uses[i].toolUse.input]])

\* C37: run_agent_loop never changes an assistant message after appending it:
\* the content of every assistant message of the conversation is the content
\* the model produced, and the inputs ToolCallsCaptor captures from the returned
\* conversation are the inputs the model produced, with no key added
C37_AssistantMessagesUnchanged ==
  LET assistant == SelectSeq(messages, IsAssistant) IN
    /\ Len(assistant) = Len(model_outputs)
    /\ \A k \in DOMAIN assistant : assistant[k].content = model_outputs[k].content
    /\ pc = "returned" => ToolCallsCapture(returned) = ModelToolUses(model_outputs)

(***************************************************************************)
(* Properties of the roles of the conversation (checked under Spec)        *)
(***************************************************************************)

IsToolResult(block) == "toolResult" \in DOMAIN block

\* the tool requests of the k-th model response have all been answered
ToolsDone(k) == k < Len(model_outputs) \/ pc # "for"

\* C38: the conversation starts with the user prompt and its roles alternate
\* user, assistant, user, ...; each model call is made with a conversation whose
\* last message has the user role; and every assistant message with stop reason
\* tool_use is, once its tools have run, followed by exactly one user message,
\* which holds tool results only
C38_RolesAlternate ==
  /\ [](messages[1] = [role |-> "user", content |-> <<[text |-> Prompt]>>])
  /\ [](\A i \in DOMAIN messages :
          messages[i].role = IF i % 2 = 1 THEN "user" ELSE "assistant")
  /\ [][model_calls' # model_calls => Last(messages).role = "user"]_vars
  /\ [](\A k \in DOMAIN model_outputs :
          (model_outputs[k].stopReason = "tool_use" /\ ToolsDone(k)) =>
            /\ Len(messages) >= 2 * k + 1
            /\ messages[2 * k + 1].role = "user"
            /\ \A b \in Range(messages[2 * k + 1].content) : IsToolResult(b)
            /\ Len(messages[2 * k + 1].content) = Len(ToolUsesOf(model_outputs[k].content))
            /\ Len(messages) >= 2 * k + 2 => messages[2 * k + 2].role = "assistant")

\* a response with two tool requests was answered by one user message with the
\* two results, and the model was called again with it
C38_Witness ==
  /\ pc = "returned"
  /\ Len(messages) = 4
  /\ model_outputs[1].stopReason = "tool_use"
  /\ Len(messages[3].content) = 2
  /\ messages[4].role = "assistant"

(***************************************************************************)
(* Properties of the counts of records and results (checked under Spec)    *)
(***************************************************************************)

RECURSIVE ToolResultsCapture(_)
\* ToolResultsCaptor.capture: the toolUseId and the first text of every
\* toolResult block of every user message, in order
ToolResultsCapture(msgs) ==
  IF msgs = <<>> THEN <<>>
  ELSE ToolResultsCapture(Front(msgs)) \o
       (IF Last(msgs).role = "user"
        THEN LET blocks == SelectSeq(Last(msgs).content, IsToolResult)
             IN  [i \in DOMAIN blocks |->
                    [toolUseId |-> blocks[i].toolResult.toolUseId,
                     content |-> IF blocks[i].toolResult.content = <<>> THEN <<>>
                                 ELSE blocks[i].toolResult.content[1].text]]
        ELSE <<>>)

RECURSIVE ToolUseMessages(_, _)
\* the assistant messages of a conversation whose response had the stop reason
\* tool_use, in order
ToolUseMessages(msgs, outputs) ==
  IF outputs = <<>> THEN <<>>
  ELSE ToolUseMessages(msgs, Front(outputs)) \o
       (IF Last(outputs).stopReason = "tool_use" THEN <<msgs[2 * Len(outputs)]>> ELSE <<>>)

\* C39: after run_agent_loop returns, the tracker holds as many records as there
\* are toolUse blocks in the assistant messages with stop reason tool_use and as
\* there are toolResult blocks in the conversation, and the tool names of the
\* records are, in order, the names ToolCallsCaptor lists for those messages
C39_RecordsMatchConversation ==
  pc = "returned" =>
    LET listed == ToolCallsCapture(ToolUseMessages(returned, model_outputs)) IN
      /\ Len(tool_calls) = Len(listed)
      /\ Len(tool_calls) = Len(ToolResultsCapture(returned))
      /\ [i \in DOMAIN tool_calls |-> tool_calls[i].tool_name]
           = [i \in DOMAIN listed |-> listed[i].name]

\* a run with two tool calls of different tools, one of which failed, followed
\* by a last response that asks for nothing
C39_Witness ==
  /\ pc = "returned"
  /\ Len(tool_calls) = 2
  /\ tool_calls[1].tool_name # tool_calls[2].tool_name
  /\ \E i \in DOMAIN tool_calls : ~tool_calls[i].success
  /\ Len(ToolResultsCapture(returned)) = 2

====
